---- MODULE Spec2Model ----
(***************************************************************************)
(* Model of the QA Swipe Console (Testr): the plan parser, the run engine  *)
(* of the Home component (cursor, results, comment drafts, delayed verdict *)
(* commit, undo), the report builder and the report history.               *)
(*                                                                         *)
(* Strings are sequences of atoms; an atom is one character or one run of  *)
(* non-blank characters.  Nullable values are None or a record.            *)
(* Every event handler runs to completion on the state of the latest       *)
(* render; the one exception is the callback of the 220 ms timer, which    *)
(* runs the commitVerdict closure of the render in which recordVerdict was *)
(* called, and therefore reads the state captured by that render.          *)
(***************************************************************************)
EXTENDS Integers, Sequences, FiniteSets, TLC

None == [none |-> TRUE]

-----------------------------------------------------------------------------
(* Bounds of the model *)

\* reports built in one behaviour (caps the toSafeId counter)
MaxReports == 1

\* tests of a plan that is loaded and run
MaxTests == 2

\* members of a plan text given to the parser
MaxMembers == 2

\* reports built in one behaviour of the sessions that follow one another
MaxSessions == 2

\* runs started after the history was loaded from the store
MaxStoredRuns == 1

\* runs finished with gestures and keys
MaxGestureRuns == 1

\* cache.put calls of the service worker that have not settled
MaxPending == 1

-----------------------------------------------------------------------------
(* Program constants *)

SWIPE_THRESHOLD == 120
MAX_HISTORY_ITEMS == 50

\* recordVerdict: window.innerWidth is 480 when there is no window; the model
\* fixes the viewport at that width
innerWidth == 480

\* Math.round(screenWidth * 1.2)
offscreenDistance == (innerWidth * 12 + 5) \div 10

-----------------------------------------------------------------------------
(* Strings *)

WhiteSpace == {" ", "\t"}

RECURSIVE trimStart(_)
trimStart(s) ==
    IF s = <<>> THEN <<>>
    ELSE IF Head(s) \in WhiteSpace THEN trimStart(Tail(s)) ELSE s

RECURSIVE trimEnd(_)
trimEnd(s) ==
    IF s = <<>> THEN <<>>
    ELSE IF s[Len(s)] \in WhiteSpace THEN trimEnd(SubSeq(s, 1, Len(s) - 1))
    ELSE s

\* String.prototype.trim
trim(s) == trimEnd(trimStart(s))

DigitChars == <<"0", "1", "2", "3", "4", "5", "6", "7", "8", "9">>

\* template-literal conversion of a non-negative integer
RECURSIVE numberToString(_)
numberToString(n) ==
    IF n < 10 THEN <<DigitChars[n + 1]>>
    ELSE numberToString(n \div 10) \o <<DigitChars[(n % 10) + 1]>>

-----------------------------------------------------------------------------
(* JavaScript objects: a sequence of [key, value] entries in own-property   *)
(* order (canonical array-index keys ascending, then the other keys in      *)
(* insertion order).                                                        *)

isDigit(c) == \E i \in 1..10 : DigitChars[i] = c

digitValue(c) == (CHOOSE i \in 1..10 : DigitChars[i] = c) - 1

RECURSIVE stringToNumber(_)
stringToNumber(s) ==
    IF s = <<>> THEN 0
    ELSE stringToNumber(SubSeq(s, 1, Len(s) - 1)) * 10 + digitValue(s[Len(s)])

isArrayIndex(k) ==
    /\ Len(k) > 0
    /\ \A i \in 1..Len(k) : isDigit(k[i])
    /\ (Len(k) > 1 => k[1] # "0")

hasKey(obj, k) == \E i \in 1..Len(obj) : obj[i].key = k

getKey(obj, k) == obj[CHOOSE i \in 1..Len(obj) : obj[i].key = k].value

\* position at which a new key is inserted
insertPos(obj, k) ==
    IF isArrayIndex(k)
    THEN Cardinality({i \in 1..Len(obj) :
            isArrayIndex(obj[i].key)
            /\ stringToNumber(obj[i].key) < stringToNumber(k)}) + 1
    ELSE Len(obj) + 1

\* obj[k] = v
setKey(obj, k, v) ==
    IF hasKey(obj, k)
    THEN [i \in 1..Len(obj) |->
            IF obj[i].key = k THEN [key |-> k, value |-> v] ELSE obj[i]]
    ELSE LET p == insertPos(obj, k)
         IN  SubSeq(obj, 1, p - 1) \o <<[key |-> k, value |-> v]>>
               \o SubSeq(obj, p, Len(obj))

\* the property names a plain object inherits from Object.prototype; the
\* value of each is a function or an object
ObjectPrototypeNames ==
    {<<"constructor">>, <<"__proto__">>, <<"hasOwnProperty">>,
     <<"isPrototypeOf">>, <<"propertyIsEnumerable">>, <<"toLocaleString">>,
     <<"toString">>, <<"valueOf">>, <<"__defineGetter__">>,
     <<"__defineSetter__">>, <<"__lookupGetter__">>, <<"__lookupSetter__">>}

\* obj[k] = v by assignment: "__proto__" is the accessor of Object.prototype,
\* the assignment replaces the prototype and adds no own property
assignKey(obj, k, v) == IF k = <<"__proto__">> THEN obj ELSE setKey(obj, k, v)

\* JSON.parse of an object literal whose members are, in text order, members
RECURSIVE jsonObject(_)
jsonObject(members) ==
    IF members = <<>> THEN <<>>
    ELSE LET m == members[Len(members)]
         IN  setKey(jsonObject(SubSeq(members, 1, Len(members) - 1)),
                    m.key, m.value)

-----------------------------------------------------------------------------
(* Plan parser.  A plan text is modelled by its JSON structure:            *)
(*   [type |-> "invalid"]                      not JSON                    *)
(*   [type |-> "array", items |-> <<...>>]     a JSON array                *)
(*   [type |-> "scalar"]                       number, boolean, null       *)
(*   [type |-> "string", s |-> <<...>>]        a JSON string               *)
(*   [type |-> "object", members |-> <<[key, value], ...>>]                *)

isRecord(value) == value.type = "object"

\* typeof test.action === "string" ? test.action.trim() : ""
fieldOf(test, name) ==
    LET obj == jsonObject(test.members)
    IN  IF hasKey(obj, name) /\ getKey(obj, name).type = "string"
        THEN trim(getKey(obj, name).s)
        ELSE <<>>

\* source[category].push(test); the array read through "__proto__" is the
\* prototype, which is no own property of source
pushTest(source, category, test) ==
    IF category = <<"__proto__">> THEN source
    ELSE setKey(source, category, Append(getKey(source, category), test))

\* faulty forEach body: the id lacks the sequence number
RECURSIVE parseTests_IdWithoutSequence(_, _, _, _)
parseTests_IdWithoutSequence(category, rawTests, i, acc) ==
    IF i > Len(rawTests) \/ acc.error # None THEN acc
    ELSE
      LET test == rawTests[i]
          index == i - 1
      IN
      IF ~isRecord(test)
      THEN [acc EXCEPT !.error =
              [message |-> "must be an object", category |-> category,
               number |-> index + 1]]
      ELSE
        LET action == fieldOf(test, <<"action">>)
            result == fieldOf(test, <<"result">>)
        IN
        IF action = <<>> \/ result = <<>>
        THEN [acc EXCEPT !.error =
                [message |-> "needs non-empty action/result",
                 category |-> category, number |-> index + 1]]
        ELSE parseTests_IdWithoutSequence(category, rawTests, i + 1,
               [source |-> pushTest(acc.source, category,
                                    [action |-> action, result |-> result]),
                flattened |-> Append(acc.flattened,
                               [id |-> category \o <<"-">>
                                         \o numberToString(index),
                                category |-> category,
                                action |-> action,
                                expected |-> result,
                                sequence |-> acc.sequence]),
                sequence |-> acc.sequence + 1,
                error |-> None])

\* the body of rawTests.forEach, for the items from position i on;
\* acc = [source, flattened, sequence, error]
RECURSIVE parseTests(_, _, _, _)
parseTests(category, rawTests, i, acc) ==
    IF i > Len(rawTests) \/ acc.error # None THEN acc
    ELSE
      LET test == rawTests[i]
          index == i - 1
      IN
      IF ~isRecord(test)
      THEN [acc EXCEPT !.error =
              [message |-> "must be an object", category |-> category,
               number |-> index + 1]]
      ELSE
        LET action == fieldOf(test, <<"action">>)
            result == fieldOf(test, <<"result">>)
        IN
        IF action = <<>> \/ result = <<>>
        THEN [acc EXCEPT !.error =
                [message |-> "needs non-empty action/result",
                 category |-> category, number |-> index + 1]]
        ELSE parseTests(category, rawTests, i + 1,
               [source |-> pushTest(acc.source, category,
                                    [action |-> action, result |-> result]),
                flattened |-> Append(acc.flattened,
                               [id |-> category \o <<"-">>
                                         \o numberToString(index) \o <<"-">>
                                         \o numberToString(acc.sequence),
                                category |-> category,
                                action |-> action,
                                expected |-> result,
                                sequence |-> acc.sequence]),
                sequence |-> acc.sequence + 1,
                error |-> None])

\* the loop over Object.entries(parsed), from entry i on
RECURSIVE parseCategories(_, _, _)
parseCategories(entries, i, acc) ==
    IF i > Len(entries) \/ acc.error # None THEN acc
    ELSE
      LET rawCategory == entries[i].key
          rawTests == entries[i].value
          category == trim(rawCategory)
      IN
      IF category = <<>>
      THEN [acc EXCEPT !.error =
              [message |-> "Category names cannot be empty."]]
      ELSE IF rawTests.type # "array"
      THEN [acc EXCEPT !.error =
              [message |-> "must contain an array", category |-> category]]
      ELSE parseCategories(entries, i + 1,
             parseTests(category, rawTests.items, 1,
               [acc EXCEPT !.source = assignKey(acc.source, category, <<>>)]))

\* faulty parsePlan: no check of flattened.length === 0
parsePlan_AllowsEmpty(rawText) ==
    IF rawText.type = "invalid"
    THEN [error |-> [message |->
            "Invalid JSON. Check commas, quotes, and brackets."]]
    ELSE IF ~isRecord(rawText)
    THEN [error |-> [message |->
            "The root value must be an object of categories."]]
    ELSE
      LET acc == parseCategories(jsonObject(rawText.members), 1,
                   [source |-> <<>>, flattened |-> <<>>, sequence |-> 1,
                    error |-> None])
      IN
      IF acc.error # None THEN [error |-> acc.error]
      ELSE [error |-> None, source |-> acc.source,
            flattened |-> acc.flattened]

parsePlan(rawText) ==
    IF rawText.type = "invalid"
    THEN [error |-> [message |->
            "Invalid JSON. Check commas, quotes, and brackets."]]
    ELSE IF ~isRecord(rawText)
    THEN [error |-> [message |->
            "The root value must be an object of categories."]]
    ELSE
      LET acc == parseCategories(jsonObject(rawText.members), 1,
                   [source |-> <<>>, flattened |-> <<>>, sequence |-> 1,
                    error |-> None])
      IN
      IF acc.error # None THEN [error |-> acc.error]
      ELSE IF Len(acc.flattened) = 0
      THEN [error |-> [message |-> "No tests were found in the plan."]]
      ELSE [error |-> None, source |-> acc.source,
            flattened |-> acc.flattened]

-----------------------------------------------------------------------------
(* Report builder *)

\* results.filter(pred).length
RECURSIVE countVerdict(_, _)
countVerdict(results, verdict) ==
    IF results = <<>> THEN 0
    ELSE countVerdict(Tail(results), verdict)
           + (IF Head(results).verdict = verdict THEN 1 ELSE 0)

\* summary[category] is truthy: an own entry, or a value inherited from
\* Object.prototype
truthyIn(summary, category) ==
    hasKey(summary, category) \/ category \in ObjectPrototypeNames

\* the summary holds its own entries; when summary[category] is an inherited
\* value, no entry is created and the counts are written on that value
RECURSIVE getCategorySummary(_)
getCategorySummary(results) ==
    IF results = <<>> THEN <<>>
    ELSE
      LET result == results[Len(results)]
          before == getCategorySummary(SubSeq(results, 1, Len(results) - 1))
          summary == IF truthyIn(before, result.category) THEN before
                     ELSE setKey(before, result.category,
                                 [passed |-> 0, failed |-> 0, total |-> 0])
      IN  IF ~hasKey(summary, result.category) THEN summary
          ELSE LET old == getKey(summary, result.category)
               IN  setKey(summary, result.category,
                     IF result.verdict = "pass"
                     THEN [old EXCEPT !.total = @ + 1, !.passed = @ + 1]
                     ELSE [old EXCEPT !.total = @ + 1, !.failed = @ + 1])

\* id stands for toSafeId(), createdAt for new Date().toISOString()
buildReport(id, createdAt, suiteName, source, results) ==
    LET passed == countVerdict(results, "pass")
        failed == Len(results) - passed
    IN  [id |-> id,
         suiteName |-> suiteName,
         createdAt |-> createdAt,
         total |-> Len(results),
         passed |-> passed,
         failed |-> failed,
         byCategory |-> getCategorySummary(results),
         results |-> results,
         source |-> source]

-----------------------------------------------------------------------------
(* Persistence of the history.  The value stored under HISTORY_STORAGE_KEY  *)
(* is None (no entry), [type |-> "empty"] (the empty text), or a text       *)
(* modelled by its JSON structure as for the plan texts, with numbers       *)
(* [type |-> "number", n |-> ...].                                          *)

jsonString(s) == [type |-> "string", s |-> s]

jsonNumber(n) == [type |-> "number", n |-> n]

jsonArray(items) == [type |-> "array", items |-> items]

jsonMember(k, v) == [key |-> k, value |-> v]

\* JSON.stringify of a TestResult: its own properties in creation order
stringifyResult(result) ==
    [type |-> "object",
     members |-> <<jsonMember(<<"id">>, jsonString(result.id)),
                   jsonMember(<<"category">>, jsonString(result.category)),
                   jsonMember(<<"action">>, jsonString(result.action)),
                   jsonMember(<<"expected">>, jsonString(result.expected)),
                   jsonMember(<<"sequence">>, jsonNumber(result.sequence)),
                   jsonMember(<<"verdict">>, jsonString(result.verdict)),
                   jsonMember(<<"comment">>, jsonString(result.comment))>>]

\* JSON.stringify of a CategorySummary
stringifySummary(summary) ==
    [type |-> "object",
     members |->
       [i \in 1..Len(summary) |->
          jsonMember(summary[i].key,
            [type |-> "object",
             members |->
               <<jsonMember(<<"passed">>, jsonNumber(summary[i].value.passed)),
                 jsonMember(<<"failed">>, jsonNumber(summary[i].value.failed)),
                 jsonMember(<<"total">>,
                            jsonNumber(summary[i].value.total))>>])]]

\* JSON.stringify of a PlanInput
stringifySource(source) ==
    [type |-> "object",
     members |->
       [i \in 1..Len(source) |->
          jsonMember(source[i].key,
            jsonArray([j \in 1..Len(source[i].value) |->
              [type |-> "object",
               members |->
                 <<jsonMember(<<"action">>,
                              jsonString(source[i].value[j].action)),
                   jsonMember(<<"result">>,
                              jsonString(source[i].value[j].result))>>]]))]]

\* JSON.stringify of a SavedReport
stringifyReport(report) ==
    [type |-> "object",
     members |->
       <<jsonMember(<<"id">>, jsonString(report.id)),
         jsonMember(<<"suiteName">>, jsonString(report.suiteName)),
         jsonMember(<<"createdAt">>, jsonString(report.createdAt)),
         jsonMember(<<"total">>, jsonNumber(report.total)),
         jsonMember(<<"passed">>, jsonNumber(report.passed)),
         jsonMember(<<"failed">>, jsonNumber(report.failed)),
         jsonMember(<<"byCategory">>, stringifySummary(report.byCategory)),
         jsonMember(<<"results">>,
                    jsonArray([i \in 1..Len(report.results) |->
                                 stringifyResult(report.results[i])])),
         jsonMember(<<"source">>, stringifySource(report.source))>>]

\* JSON.stringify(history)
stringify(reports) ==
    jsonArray([i \in 1..Len(reports) |-> stringifyReport(reports[i])])

\* the value JSON.parse builds from the text of a JSON string or number
scalarOf(text) == IF text.type = "string" THEN text.s ELSE text.n

\* the object JSON.parse builds from the text of a TestResult
parseResult(text) ==
    LET obj == jsonObject(text.members)
    IN  [id |-> scalarOf(getKey(obj, <<"id">>)),
         category |-> scalarOf(getKey(obj, <<"category">>)),
         action |-> scalarOf(getKey(obj, <<"action">>)),
         expected |-> scalarOf(getKey(obj, <<"expected">>)),
         sequence |-> scalarOf(getKey(obj, <<"sequence">>)),
         verdict |-> scalarOf(getKey(obj, <<"verdict">>)),
         comment |-> scalarOf(getKey(obj, <<"comment">>))]

\* the object JSON.parse builds from the text of a CategorySummary
parseSummary(text) ==
    LET obj == jsonObject(text.members)
    IN  [i \in 1..Len(obj) |->
           LET counts == jsonObject(obj[i].value.members)
           IN  [key |-> obj[i].key,
                value |-> [passed |-> scalarOf(getKey(counts, <<"passed">>)),
                           failed |-> scalarOf(getKey(counts, <<"failed">>)),
                           total |-> scalarOf(getKey(counts, <<"total">>))]]]

\* the object JSON.parse builds from the text of a PlanInput
parseSource(text) ==
    LET obj == jsonObject(text.members)
    IN  [i \in 1..Len(obj) |->
           [key |-> obj[i].key,
            value |->
              [j \in 1..Len(obj[i].value.items) |->
                 LET group == jsonObject(obj[i].value.items[j].members)
                 IN  [action |-> scalarOf(getKey(group, <<"action">>)),
                      result |-> scalarOf(getKey(group, <<"result">>))]]]]

\* the object JSON.parse builds from the text of a SavedReport
parseReport(text) ==
    LET obj == jsonObject(text.members)
    IN  [id |-> scalarOf(getKey(obj, <<"id">>)),
         suiteName |-> scalarOf(getKey(obj, <<"suiteName">>)),
         createdAt |-> scalarOf(getKey(obj, <<"createdAt">>)),
         total |-> scalarOf(getKey(obj, <<"total">>)),
         passed |-> scalarOf(getKey(obj, <<"passed">>)),
         failed |-> scalarOf(getKey(obj, <<"failed">>)),
         byCategory |-> parseSummary(getKey(obj, <<"byCategory">>)),
         results |->
           LET items == getKey(obj, <<"results">>).items
           IN  [i \in 1..Len(items) |-> parseResult(items[i])],
         source |-> parseSource(getKey(obj, <<"source">>))]

\* JSON.parse(raw) of a stored array of reports
parseReports(raw) == [i \in 1..Len(raw.items) |-> parseReport(raw.items[i])]

-----------------------------------------------------------------------------
(* Inputs *)

\* const SAMPLE_PLAN
SAMPLE_PLAN ==
    LET str(a) == [type |-> "string", s |-> <<a>>]
        test(a, r) == [type |-> "object",
                       members |-> <<[key |-> <<"action">>, value |-> str(a)],
                                     [key |-> <<"result">>, value |-> str(r)]>>]
        tests == [type |-> "array",
                  items |-> <<test("click the log in button",
                                   "user is logged in"),
                              test("click the log out button",
                                   "user is logged out")>>]
    IN  [type |-> "object",
         members |-> <<[key |-> <<"Category", " ", "1">>, value |-> tests],
                       [key |-> <<"Category", " ", "2">>, value |-> tests]>>]

\* {"A":[{"action":" x","result":"y "}]}
PlanOneTest ==
    [type |-> "object",
     members |-> <<[key |-> <<"A">>,
                    value |-> [type |-> "array",
                      items |-> <<[type |-> "object",
                        members |->
                          <<[key |-> <<"action">>,
                             value |-> [type |-> "string", s |-> <<" ", "x">>]],
                            [key |-> <<"result">>,
                             value |-> [type |-> "string",
                                        s |-> <<"y", " ">>]]>>]>>]]>>]

\* {"B":[{"action":"x","result":"y"}],"A":[{"action":"x","result":"y"}]}
PlanTwoTests ==
    LET test == [type |-> "object",
                 members |->
                   <<[key |-> <<"action">>,
                      value |-> [type |-> "string", s |-> <<"x">>]],
                     [key |-> <<"result">>,
                      value |-> [type |-> "string", s |-> <<"y">>]]>>]
        tests == [type |-> "array", items |-> <<test>>]
    IN  [type |-> "object",
         members |-> <<[key |-> <<"B">>, value |-> tests],
                       [key |-> <<"A">>, value |-> tests]>>]

\* {}
PlanEmpty == [type |-> "object", members |-> <<>>]

\* texts typed or imported into the plan textarea
PlanTexts == {PlanOneTest, PlanTwoTests, PlanEmpty}

\* members of the plan texts given to the parser: a category key and its
\* value
PlanMembers ==
    LET str(a) == [type |-> "string", s |-> a]
        number == [type |-> "scalar"]
        obj(a, r) == [type |-> "object",
                      members |-> <<[key |-> <<"action">>, value |-> a],
                                    [key |-> <<"result">>, value |-> r]>>]
        arr(items) == [type |-> "array", items |-> items]
        testX == obj(str(<<"x">>), str(<<"y">>))
        testU == obj(str(<<" ", "u">>), str(<<"v", " ">>))
    IN  { [key |-> <<"A">>, value |-> arr(<<testX>>)],
          [key |-> <<" ", "A">>, value |-> arr(<<testU>>)],
          [key |-> <<"a">>, value |-> arr(<<testX>>)],
          [key |-> <<"B">>, value |-> arr(<<testX, testU>>)],
          [key |-> <<"2">>, value |-> arr(<<testX>>)],
          [key |-> <<" ">>, value |-> arr(<<testX>>)],
          [key |-> <<"C">>, value |-> number],
          [key |-> <<"D">>, value |-> arr(<<>>)],
          [key |-> <<"E">>, value |-> arr(<<testX, number>>)],
          [key |-> <<"F">>, value |-> arr(<<obj(str(<<" ">>), str(<<"y">>))>>)],
          [key |-> <<"G">>, value |-> arr(<<obj(str(<<"x">>), number)>>)],
          [key |-> <<"A", "-", "0">>, value |-> arr(<<testX, testU>>)],
          [key |-> <<"A", "-", "0", "-", "1">>, value |-> arr(<<testX>>)],
          [key |-> <<"constructor">>, value |-> arr(<<testX>>)],
          [key |-> <<"__proto__">>, value |-> arr(<<testX>>)] }

\* texts given to the parser: the texts that are no JSON object, and the
\* objects of up to MaxMembers members
ParserTexts ==
    { [type |-> "invalid"], [type |-> "scalar"],
      [type |-> "string", s |-> <<"x">>], [type |-> "array", items |-> <<>>] }
    \cup { [type |-> "object", members |-> m] :
             m \in UNION { [1..n -> PlanMembers] : n \in 0..MaxMembers } }

\* texts typed into the comment textarea
CommentTexts == {<<" ">>, <<" ", "ok", " ">>}

Verdicts == {"pass", "fail"}

\* the pointers of the gestures: a mouse or first finger, a second finger
GesturePointers == {1, 2}

-----------------------------------------------------------------------------
(* State of the Home component *)

VARIABLES
    step,             \* "start" | "input" | "run" | "report"
    suiteName,        \* the suite name field, left at its initial text
    jsonDraft,
    parseError,       \* None or the error of the last failed parse
    sourcePlan,       \* None or [entries |-> the parsed source]
    tests,
    cursor,
    results,          \* sequence of None | TestResult
    commentDrafts,    \* object: test id -> draft
    dragOffset,
    isDragging,
    exitVerdict,      \* None or [verdict |-> v]
    pointerRef,       \* None or [pointerId, startX, startY, locked]
    swipeTimeoutRef,  \* None or the pending timer: [verdict, closure]
    history,
    activeReportId,   \* None or [id |-> report id]
    nextId,           \* the next value of toSafeId()
    mounted,          \* the effects of the first render have run
    storage,          \* localStorage[HISTORY_STORAGE_KEY]
    pressed,          \* history variable: for each pointer, None or the
                      \* gesture it is making: [onControl, phase]
    abandonedPending, \* history variable: a run was abandoned while a commit
                      \* was pending, and no plan has been loaded since
    installDismissed,
    isInstalled,
    deferredInstallPrompt, \* None or [event |-> "beforeinstallprompt"]
    dismissStorage,   \* localStorage[INSTALL_PROMPT_DISMISS_KEY]: None or
                      \* [value |-> "1"]
    standalone,       \* the page is displayed as an installed application
    worker,           \* sw.js: "none" | "activated"
    caches,           \* CacheStorage: sequence of [name, entries], in the
                      \* order the caches were created
    puts,             \* the cache.put calls that have not settled yet
    reply             \* None or what the last fetch event was answered with

vars == <<step, suiteName, jsonDraft, parseError, sourcePlan, tests, cursor,
          results, commentDrafts, dragOffset, isDragging, exitVerdict,
          pointerRef, swipeTimeoutRef, history, activeReportId, nextId,
          mounted, storage, pressed, abandonedPending, installDismissed,
          isInstalled, deferredInstallPrompt, dismissStorage, standalone,
          worker, caches, puts, reply>>

\* the variables of the page, and those of the service worker
pageVars ==
    <<step, suiteName, jsonDraft, parseError, sourcePlan, tests, cursor,
      results, commentDrafts, dragOffset, isDragging, exitVerdict,
      pointerRef, swipeTimeoutRef, history, activeReportId, nextId,
      mounted, storage, pressed, abandonedPending, installDismissed,
      isInstalled, deferredInstallPrompt, dismissStorage, standalone>>

workerVars == <<worker, caches, puts, reply>>

\* the state as one record; a handler is a function from records to records
home ==
    [step |-> step, suiteName |-> suiteName, jsonDraft |-> jsonDraft,
     parseError |-> parseError, sourcePlan |-> sourcePlan, tests |-> tests,
     cursor |-> cursor, results |-> results, commentDrafts |-> commentDrafts,
     dragOffset |-> dragOffset, isDragging |-> isDragging,
     exitVerdict |-> exitVerdict, pointerRef |-> pointerRef,
     swipeTimeoutRef |-> swipeTimeoutRef, history |-> history,
     activeReportId |-> activeReportId, nextId |-> nextId,
     mounted |-> mounted, storage |-> storage, pressed |-> pressed,
     abandonedPending |-> abandonedPending,
     installDismissed |-> installDismissed, isInstalled |-> isInstalled,
     deferredInstallPrompt |-> deferredInstallPrompt,
     dismissStorage |-> dismissStorage, standalone |-> standalone]

\* faulty save effect: writes nothing when the history is empty
saveHistory_SkipsEmpty(S) ==
    IF S.mounted /\ S.history # <<>>
    THEN [S EXCEPT !.storage = stringify(S.history)] ELSE S

\* the effect on [history]: localStorage.setItem(HISTORY_STORAGE_KEY,
\* JSON.stringify(history)), run after the renders of the mounted component
saveHistory(S) ==
    IF S.mounted THEN [S EXCEPT !.storage = stringify(S.history)] ELSE S

\* the state after a handler has run, React has rendered and the effects of
\* the render have run
Set(S) ==
    /\ step' = S.step
    /\ suiteName' = S.suiteName
    /\ jsonDraft' = S.jsonDraft
    /\ parseError' = S.parseError
    /\ sourcePlan' = S.sourcePlan
    /\ tests' = S.tests
    /\ cursor' = S.cursor
    /\ results' = S.results
    /\ commentDrafts' = S.commentDrafts
    /\ dragOffset' = S.dragOffset
    /\ isDragging' = S.isDragging
    /\ exitVerdict' = S.exitVerdict
    /\ pointerRef' = S.pointerRef
    /\ swipeTimeoutRef' = S.swipeTimeoutRef
    /\ history' = S.history
    /\ activeReportId' = S.activeReportId
    /\ nextId' = S.nextId
    /\ mounted' = S.mounted
    /\ storage' = saveHistory(S).storage
    /\ pressed' = S.pressed
    /\ abandonedPending' = S.abandonedPending
    /\ installDismissed' = S.installDismissed
    /\ isInstalled' = S.isInstalled
    /\ deferredInstallPrompt' = S.deferredInstallPrompt
    /\ dismissStorage' = S.dismissStorage
    /\ standalone' = S.standalone
    /\ UNCHANGED workerVars

\* useState(false), useState(false) and useState(null) of the install prompt,
\* in a browser tab that holds no stored preference
InstallPromptInitial ==
    /\ installDismissed = FALSE
    /\ isInstalled = FALSE
    /\ deferredInstallPrompt = None
    /\ dismissStorage = None
    /\ standalone = FALSE

\* no service worker is registered and the origin has no cache
WorkerInitial ==
    /\ worker = "none"
    /\ caches = <<>>
    /\ puts = {}
    /\ reply = None

Init ==
    /\ step = "start"
    /\ suiteName = <<"Regression Plan">>
    /\ jsonDraft = SAMPLE_PLAN
    /\ parseError = None
    /\ sourcePlan = None
    /\ tests = <<>>
    /\ cursor = 0
    /\ results = <<>>
    /\ commentDrafts = <<>>
    /\ dragOffset = 0
    /\ isDragging = FALSE
    /\ exitVerdict = None
    /\ pointerRef = None
    /\ swipeTimeoutRef = None
    /\ history = <<>>
    /\ activeReportId = None
    /\ nextId = 1
    /\ mounted = TRUE
    /\ storage = stringify(<<>>)
    /\ pressed = [p \in GesturePointers |-> None]
    /\ abandonedPending = FALSE
    /\ InstallPromptInitial
    /\ WorkerInitial

\* tests[cursor] (the source indexes from 0, the model's sequences from 1)
testAt(ts, c) == IF c + 1 \in 1..Len(ts) THEN ts[c + 1] ELSE None

\* const currentTest = tests[cursor] ?? null
currentTest(S) == testAt(S.tests, S.cursor)

\* faulty filter: keeps the results in reverse order
RECURSIVE filterResults_Reversed(_)
filterResults_Reversed(rs) ==
    IF rs = <<>> THEN <<>>
    ELSE IF Head(rs) = None THEN filterResults_Reversed(Tail(rs))
    ELSE filterResults_Reversed(Tail(rs)) \o <<Head(rs)>>

\* results.filter(Boolean)
RECURSIVE filterResults(_)
filterResults(rs) ==
    IF rs = <<>> THEN <<>>
    ELSE IF Head(rs) = None THEN filterResults(Tail(rs))
    ELSE <<Head(rs)>> \o filterResults(Tail(rs))

-----------------------------------------------------------------------------
(* Run engine *)

\* what the callbacks created by the render of state S read
\* (the dependency lists of commitVerdict and finishRun)
render(S) ==
    [step |-> S.step, tests |-> S.tests, cursor |-> S.cursor,
     commentDrafts |-> S.commentDrafts, results |-> S.results,
     sourcePlan |-> S.sourcePlan, suiteName |-> S.suiteName]

Min(a, b) == IF a < b THEN a ELSE b

\* faulty append: the new report replaces the history
appendReport_DropsPrevious(report, previous) == <<report>>

\* faulty append: keeps the last MAX_HISTORY_ITEMS entries
appendReport_KeepsTail(report, previous) ==
    SubSeq(<<report>> \o previous,
           Len(previous) + 2 - Min(Len(previous) + 1, MAX_HISTORY_ITEMS),
           Len(previous) + 1)

\* faulty append: no slice
appendReport_NoCap(report, previous) == <<report>> \o previous

\* [report, ...previous].slice(0, MAX_HISTORY_ITEMS)
appendReport(report, previous) ==
    SubSeq(<<report>> \o previous, 1,
           Min(Len(previous) + 1, MAX_HISTORY_ITEMS))

\* suiteName.trim() || "Untitled Plan"
reportName(name) ==
    IF trim(name) = <<>> THEN <<"Untitled Plan">> ELSE trim(name)

\* clearTimeout(swipeTimeoutRef.current); swipeTimeoutRef.current = null
clearSwipeTimeout(S) ==
    IF S.swipeTimeoutRef # None THEN [S EXCEPT !.swipeTimeoutRef = None]
    ELSE S

\* faulty finishRun: builds the report from the results of the render, which
\* lack the verdict being committed
finishRun_StaleResults(S, r, nextResults) ==
    IF r.sourcePlan = None THEN S
    ELSE
      LET finishedResults == filterResults(r.results)
          report == buildReport(S.nextId, S.nextId, reportName(r.suiteName),
                                r.sourcePlan.entries, finishedResults)
      IN  [S EXCEPT !.history = appendReport(report, S.history),
                    !.activeReportId = [id |-> report.id],
                    !.step = "report",
                    !.nextId = S.nextId + 1]

\* faulty finishRun: empties the run state once the report is built
finishRun_ClearsRun(S, r, nextResults) ==
    IF r.sourcePlan = None THEN S
    ELSE
      LET finishedResults == filterResults(nextResults)
          report == buildReport(S.nextId, S.nextId, reportName(r.suiteName),
                                r.sourcePlan.entries, finishedResults)
      IN  [S EXCEPT !.history = appendReport(report, S.history),
                    !.activeReportId = [id |-> report.id],
                    !.step = "report",
                    !.nextId = S.nextId + 1,
                    !.sourcePlan = None,
                    !.tests = <<>>,
                    !.cursor = 0,
                    !.results = <<>>,
                    !.commentDrafts = <<>>]

\* finishRun of render r, run in state S
finishRun(S, r, nextResults) ==
    IF r.sourcePlan = None THEN S
    ELSE
      LET finishedResults == filterResults(nextResults)
          report == buildReport(S.nextId, S.nextId, reportName(r.suiteName),
                                r.sourcePlan.entries, finishedResults)
      IN  [S EXCEPT !.history = appendReport(report, S.history),
                    !.activeReportId = [id |-> report.id],
                    !.step = "report",
                    !.nextId = S.nextId + 1]

\* (commentDrafts[target.id] ?? "").trim()
commentOf(drafts, target) ==
    trim(IF hasKey(drafts, target.id) THEN getKey(drafts, target.id)
         ELSE <<>>)

\* { ...target, verdict, comment }
entryOf(target, verdict, comment) ==
    [id |-> target.id, category |-> target.category,
     action |-> target.action, expected |-> target.expected,
     sequence |-> target.sequence, verdict |-> verdict, comment |-> comment]

\* faulty setAt: writes the slot before the one asked for
setAt_OffByOne(rs, index, value) ==
    [i \in 1..Len(rs) |-> IF i = index THEN value ELSE rs[i]]

\* nextResults = [...results]; nextResults[index] = value
setAt(rs, index, value) ==
    [i \in 1..Len(rs) |-> IF i = index + 1 THEN value ELSE rs[i]]

\* faulty commitVerdict: advances the cursor before it finishes the run
commitVerdict_AdvancesBeforeFinish(S, r, verdict) ==
    IF r.step # "run" THEN S
    ELSE IF testAt(r.tests, r.cursor) = None THEN S
    ELSE
      LET target == testAt(r.tests, r.cursor)
          comment == commentOf(r.commentDrafts, target)
          nextResults == setAt(r.results, r.cursor,
                               entryOf(target, verdict, comment))
          nextCursor == r.cursor + 1
          S1 == [S EXCEPT !.results = nextResults, !.isDragging = FALSE,
                          !.cursor = nextCursor]
      IN  IF nextCursor >= Len(r.tests)
          THEN finishRun(S1, r, nextResults)
          ELSE S1

\* faulty commitVerdict: finishes the run one test early
commitVerdict_FinishesEarly(S, r, verdict) ==
    IF r.step # "run" THEN S
    ELSE IF testAt(r.tests, r.cursor) = None THEN S
    ELSE
      LET target == testAt(r.tests, r.cursor)
          comment == commentOf(r.commentDrafts, target)
          nextResults == setAt(r.results, r.cursor,
                               entryOf(target, verdict, comment))
          nextCursor == r.cursor + 1
          S1 == [S EXCEPT !.results = nextResults, !.isDragging = FALSE]
      IN  IF nextCursor + 1 >= Len(r.tests)
          THEN finishRun(S1, r, nextResults)
          ELSE [S1 EXCEPT !.cursor = nextCursor]

\* faulty commitVerdict: advances the cursor after the last test instead of
\* finishing the run
commitVerdict_NeverFinishes(S, r, verdict) ==
    IF r.step # "run" THEN S
    ELSE IF testAt(r.tests, r.cursor) = None THEN S
    ELSE
      LET target == testAt(r.tests, r.cursor)
          comment == commentOf(r.commentDrafts, target)
          nextResults == setAt(r.results, r.cursor,
                               entryOf(target, verdict, comment))
      IN  [S EXCEPT !.results = nextResults, !.isDragging = FALSE,
                    !.cursor = r.cursor + 1]

\* commitVerdict of render r, run in state S
commitVerdict(S, r, verdict) ==
    IF r.step # "run" THEN S
    ELSE IF testAt(r.tests, r.cursor) = None THEN S
    ELSE
      LET target == testAt(r.tests, r.cursor)
          comment == commentOf(r.commentDrafts, target)
          nextResults == setAt(r.results, r.cursor,
                               entryOf(target, verdict, comment))
          nextCursor == r.cursor + 1
          S1 == [S EXCEPT !.results = nextResults, !.isDragging = FALSE]
      IN  IF nextCursor >= Len(r.tests)
          THEN finishRun(S1, r, nextResults)
          ELSE [S1 EXCEPT !.cursor = nextCursor]

\* faulty recordVerdict: accepts a request while a commit is pending
recordVerdict_NoLock(S, verdict) ==
    IF S.step # "run" THEN S
    ELSE IF currentTest(S) = None THEN S
    ELSE
      LET signedDistance == IF verdict = "pass" THEN offscreenDistance
                            ELSE 0 - offscreenDistance
      IN  [S EXCEPT !.isDragging = FALSE,
                    !.exitVerdict = [verdict |-> verdict],
                    !.dragOffset = signedDistance,
                    !.swipeTimeoutRef =
                        [verdict |-> verdict, closure |-> render(S)]]

\* recordVerdict: starts the exit animation and arms the 220 ms timer, whose
\* callback calls the commitVerdict of this render
recordVerdict(S, verdict) ==
    IF S.step # "run" \/ S.exitVerdict # None THEN S
    ELSE IF currentTest(S) = None THEN S
    ELSE
      LET signedDistance == IF verdict = "pass" THEN offscreenDistance
                            ELSE 0 - offscreenDistance
      IN  [S EXCEPT !.isDragging = FALSE,
                    !.exitVerdict = [verdict |-> verdict],
                    !.dragOffset = signedDistance,
                    !.swipeTimeoutRef =
                        [verdict |-> verdict, closure |-> render(S)]]

\* faulty callback: leaves the timer armed
timerCallback_KeepsTimer(S) ==
    LET S1 == commitVerdict(S, S.swipeTimeoutRef.closure,
                            S.swipeTimeoutRef.verdict)
    IN  [S1 EXCEPT !.exitVerdict = None,
                   !.dragOffset = 0]

\* faulty callback: no setExitVerdict(null)
timerCallback_KeepsLock(S) ==
    LET S1 == commitVerdict(S, S.swipeTimeoutRef.closure,
                            S.swipeTimeoutRef.verdict)
    IN  [S1 EXCEPT !.dragOffset = 0,
                   !.swipeTimeoutRef = None]

\* the callback of the timer armed by recordVerdict
timerCallback(S) ==
    LET S1 == commitVerdict(S, S.swipeTimeoutRef.closure,
                            S.swipeTimeoutRef.verdict)
    IN  [S1 EXCEPT !.exitVerdict = None,
                   !.dragOffset = 0,
                   !.swipeTimeoutRef = None]

\* faulty undoLast: no check of cursor === 0
undoLast_NoCursorGuard(S) ==
    IF S.step # "run" \/ S.exitVerdict # None THEN S
    ELSE
      LET previousIndex == S.cursor - 1
      IN  [S EXCEPT !.results = setAt(S.results, previousIndex, None),
                    !.cursor = previousIndex,
                    !.dragOffset = 0,
                    !.isDragging = FALSE]

\* faulty undoLast: no check of exitVerdict
undoLast_NoPendingGuard(S) ==
    IF S.step # "run" \/ S.cursor = 0 THEN S
    ELSE
      LET previousIndex == S.cursor - 1
      IN  [S EXCEPT !.results = setAt(S.results, previousIndex, None),
                    !.cursor = previousIndex,
                    !.dragOffset = 0,
                    !.isDragging = FALSE]

\* faulty undoLast: moves the cursor back and keeps the result
undoLast_KeepsResult(S) ==
    IF S.step # "run" \/ S.cursor = 0 \/ S.exitVerdict # None THEN S
    ELSE
      LET previousIndex == S.cursor - 1
      IN  [S EXCEPT !.cursor = previousIndex,
                    !.dragOffset = 0,
                    !.isDragging = FALSE]

\* faulty undoLast: also resets the comment drafts
undoLast_ClearsDrafts(S) ==
    IF S.step # "run" \/ S.cursor = 0 \/ S.exitVerdict # None THEN S
    ELSE
      LET previousIndex == S.cursor - 1
      IN  [S EXCEPT !.results = setAt(S.results, previousIndex, None),
                    !.cursor = previousIndex,
                    !.commentDrafts = <<>>,
                    !.dragOffset = 0,
                    !.isDragging = FALSE]

\* faulty undoLast: empties the slot of the current test
undoLast_ClearsCurrent(S) ==
    IF S.step # "run" \/ S.cursor = 0 \/ S.exitVerdict # None THEN S
    ELSE
      LET previousIndex == S.cursor - 1
      IN  [S EXCEPT !.results = setAt(S.results, S.cursor, None),
                    !.cursor = previousIndex,
                    !.dragOffset = 0,
                    !.isDragging = FALSE]

undoLast(S) ==
    IF S.step # "run" \/ S.cursor = 0 \/ S.exitVerdict # None THEN S
    ELSE
      LET previousIndex == S.cursor - 1
      IN  [S EXCEPT !.results = setAt(S.results, previousIndex, None),
                    !.cursor = previousIndex,
                    !.dragOffset = 0,
                    !.isDragging = FALSE]

\* faulty clearRunState: leaves the timer armed
clearRunState_KeepsTimer(S) ==
    [S EXCEPT
        !.sourcePlan = None,
        !.tests = <<>>,
        !.cursor = 0,
        !.results = <<>>,
        !.commentDrafts = <<>>,
        !.dragOffset = 0,
        !.isDragging = FALSE,
        !.exitVerdict = None]

\* faulty clearRunState: keeps the results
clearRunState_KeepsResults(S) ==
    [clearSwipeTimeout(S) EXCEPT
        !.sourcePlan = None,
        !.tests = <<>>,
        !.cursor = 0,
        !.commentDrafts = <<>>,
        !.dragOffset = 0,
        !.isDragging = FALSE,
        !.exitVerdict = None]

clearRunState(S) ==
    [clearSwipeTimeout(S) EXCEPT
        !.sourcePlan = None,
        !.tests = <<>>,
        !.cursor = 0,
        !.results = <<>>,
        !.commentDrafts = <<>>,
        !.dragOffset = 0,
        !.isDragging = FALSE,
        !.exitVerdict = None]

openNewPlan(S) ==
    [clearRunState(S) EXCEPT !.parseError = None, !.step = "input"]

\* Array(n).fill(null)
emptyResults(n) == [i \in 1..n |-> None]

\* faulty submitPlan: leaves a pending timer armed
submitPlan_KeepsTimer(S) ==
    LET parsed == parsePlan(S.jsonDraft)
    IN  IF parsed.error = None
        THEN [S EXCEPT !.sourcePlan = [entries |-> parsed.source],
                       !.tests = parsed.flattened,
                       !.results = emptyResults(Len(parsed.flattened)),
                       !.cursor = 0,
                       !.commentDrafts = <<>>,
                       !.parseError = None,
                       !.dragOffset = 0,
                       !.isDragging = FALSE,
                       !.exitVerdict = None,
                       !.step = "run"]
        ELSE [S EXCEPT !.parseError = parsed.error]

\* faulty submitPlan: shows the run panel after a failed parse
submitPlan_StartsOnError(S) ==
    LET S1 == clearSwipeTimeout(S)
        parsed == parsePlan(S.jsonDraft)
    IN  IF parsed.error = None
        THEN [S1 EXCEPT !.sourcePlan = [entries |-> parsed.source],
                        !.tests = parsed.flattened,
                        !.results = emptyResults(Len(parsed.flattened)),
                        !.cursor = 0,
                        !.commentDrafts = <<>>,
                        !.parseError = None,
                        !.dragOffset = 0,
                        !.isDragging = FALSE,
                        !.exitVerdict = None,
                        !.step = "run"]
        ELSE [S1 EXCEPT !.parseError = parsed.error, !.step = "run"]

submitPlan(S) ==
    LET S1 == clearSwipeTimeout(S)
        parsed == parsePlan(S.jsonDraft)
    IN  IF parsed.error = None
        THEN [S1 EXCEPT !.sourcePlan = [entries |-> parsed.source],
                        !.tests = parsed.flattened,
                        !.results = emptyResults(Len(parsed.flattened)),
                        !.cursor = 0,
                        !.commentDrafts = <<>>,
                        !.parseError = None,
                        !.dragOffset = 0,
                        !.isDragging = FALSE,
                        !.exitVerdict = None,
                        !.step = "run"]
        ELSE [S1 EXCEPT !.parseError = parsed.error]

\* { ...previous, [testId]: value }
updateComment(S, testId, value) ==
    [S EXCEPT !.commentDrafts = setKey(S.commentDrafts, testId, value)]

\* the card, its handlers and the run buttons are rendered when
\* step === "run" && currentTest
cardRendered == step = "run" /\ currentTest(home) # None

\* history.find((item) => item.id === activeReportId) ?? null
activeReport(S) ==
    IF S.activeReportId # None
       /\ \E i \in 1..Len(S.history) : S.history[i].id = S.activeReportId.id
    THEN S.history[CHOOSE i \in 1..Len(S.history) :
            /\ S.history[i].id = S.activeReportId.id
            /\ \A j \in 1..(i - 1) : S.history[j].id # S.activeReportId.id]
    ELSE None

\* Start New Session, Change Plan, New Session, Start First Session
OpenNewPlan ==
    /\ \/ step = "start"
       \/ cardRendered
       \/ step = "report" /\ activeReport(home) # None
       \/ step = "report" /\ activeReport(home) = None /\ history = <<>>
    /\ Set([openNewPlan(home) EXCEPT
              !.abandonedPending = abandonedPending \/ swipeTimeoutRef # None])

\* Load Plan and Start Swiping
SubmitPlan ==
    /\ step = "input"
    /\ nextId <= MaxReports
    /\ LET parsed == parsePlan(jsonDraft)
       IN  parsed.error = None => Len(parsed.flattened) <= MaxTests
    /\ Set([submitPlan(home) EXCEPT
              !.abandonedPending =
                  abandonedPending /\ parsePlan(jsonDraft).error # None])

\* typing in the comment textarea of the current card
EditComment ==
    /\ cardRendered
    /\ \E value \in CommentTexts :
         Set(updateComment(home, currentTest(home).id, value))

\* the 220 ms have elapsed
TimerFires ==
    /\ swipeTimeoutRef # None
    /\ Set(timerCallback(home))

-----------------------------------------------------------------------------
(* Pointer gestures on the current card *)

PointerIds == {1}
ClientXs == {0 - 121, 11, 121}
ClientYs == {0, 20}

\* where the model puts a pointer down (event.clientX, event.clientY)
DownPoint == [clientX |-> 0, clientY |-> 0]

Abs(x) == IF x < 0 THEN 0 - x ELSE x

\* onControl: the event target is inside a textarea, input, button, select,
\* option or label
handlePointerDown(S, pointerId, clientX, clientY, onControl) ==
    IF S.exitVerdict # None THEN S
    ELSE IF onControl THEN S
    ELSE [S EXCEPT !.pointerRef =
            [pointerId |-> pointerId, startX |-> clientX,
             startY |-> clientY, locked |-> FALSE]]

handlePointerMove(S, pointerId, clientX, clientY) ==
    LET pointer == S.pointerRef
    IN
    IF pointer = None THEN S
    ELSE IF pointer.pointerId # pointerId THEN S
    ELSE
      LET deltaX == clientX - pointer.startX
          deltaY == clientY - pointer.startY
          absX == Abs(deltaX)
          absY == Abs(deltaY)
      IN
      IF pointer.locked THEN [S EXCEPT !.dragOffset = deltaX]
      ELSE IF absY > 10 /\ absY > absX
      THEN [S EXCEPT !.pointerRef = None,
                     !.isDragging = FALSE,
                     !.dragOffset = 0]
      ELSE IF absX > 10 /\ absX >= absY
      THEN [S EXCEPT !.pointerRef = [pointer EXCEPT !.locked = TRUE],
                     !.isDragging = TRUE,
                     !.dragOffset = deltaX]
      ELSE S

\* faulty resolvePointerUp: a release at the threshold counts
resolvePointerUp_AtThreshold(S, deltaX) ==
    LET S1 == [S EXCEPT !.pointerRef = None]
    IN  IF deltaX >= SWIPE_THRESHOLD THEN recordVerdict(S1, "pass")
        ELSE IF deltaX <= 0 - SWIPE_THRESHOLD THEN recordVerdict(S1, "fail")
        ELSE [S1 EXCEPT !.dragOffset = 0, !.isDragging = FALSE]

resolvePointerUp(S, deltaX) ==
    LET S1 == [S EXCEPT !.pointerRef = None]
    IN  IF deltaX > SWIPE_THRESHOLD THEN recordVerdict(S1, "pass")
        ELSE IF deltaX < 0 - SWIPE_THRESHOLD THEN recordVerdict(S1, "fail")
        ELSE [S1 EXCEPT !.dragOffset = 0, !.isDragging = FALSE]

handlePointerUp(S, pointerId, clientX) ==
    LET pointer == S.pointerRef
    IN
    IF pointer = None THEN S
    ELSE IF pointer.pointerId # pointerId THEN S
    ELSE IF ~pointer.locked
    THEN [S EXCEPT !.pointerRef = None,
                   !.dragOffset = 0,
                   !.isDragging = FALSE]
    ELSE resolvePointerUp(S, clientX - pointer.startX)

handlePointerCancel(S, pointerId) ==
    LET pointer == S.pointerRef
    IN
    IF pointer = None THEN S
    ELSE IF pointer.pointerId # pointerId THEN S
    ELSE [S EXCEPT !.pointerRef = None,
                   !.dragOffset = 0,
                   !.isDragging = FALSE]

PointerDown ==
    /\ cardRendered
    /\ \E pointerId \in PointerIds, onControl \in BOOLEAN :
         Set(handlePointerDown(home, pointerId, DownPoint.clientX,
                               DownPoint.clientY, onControl))

PointerMove ==
    /\ cardRendered
    /\ \E pointerId \in PointerIds, clientX \in ClientXs,
          clientY \in ClientYs :
         Set(handlePointerMove(home, pointerId, clientX, clientY))

PointerUp ==
    /\ cardRendered
    /\ \E pointerId \in PointerIds, clientX \in ClientXs :
         Set(handlePointerUp(home, pointerId, clientX))

PointerCancel ==
    /\ cardRendered
    /\ \E pointerId \in PointerIds :
         Set(handlePointerCancel(home, pointerId))

-----------------------------------------------------------------------------
(* Keyboard shortcuts and the buttons of the run panel *)

Keys == {"P", "ArrowLeft", "u", "z", "x"}

\* event.key.toLowerCase()
toLowerCase(key) ==
    CASE key = "P" -> "p"
      [] key = "F" -> "f"
      [] key = "U" -> "u"
      [] key = "Z" -> "z"
      [] key = "ArrowRight" -> "arrowright"
      [] key = "ArrowLeft" -> "arrowleft"
      [] OTHER -> key

\* faulty onKeyDown: no check of the event target
onKeyDown_InFields(S, eventKey, inField, modifier) ==
    LET key == toLowerCase(eventKey)
        S1 == IF key = "p" \/ eventKey = "ArrowRight"
              THEN recordVerdict(S, "pass") ELSE S
        S2 == IF key = "f" \/ eventKey = "ArrowLeft"
              THEN recordVerdict(S1, "fail") ELSE S1
        S3 == IF key = "u" \/ (modifier /\ key = "z")
              THEN undoLast(S2) ELSE S2
    IN  S3

\* inField: the event target is an input, a textarea or contenteditable;
\* modifier: event.metaKey || event.ctrlKey
onKeyDown(S, eventKey, inField, modifier) ==
    LET key == toLowerCase(eventKey)
        S1 == IF key = "p" \/ eventKey = "ArrowRight"
              THEN recordVerdict(S, "pass") ELSE S
        S2 == IF key = "f" \/ eventKey = "ArrowLeft"
              THEN recordVerdict(S1, "fail") ELSE S1
        S3 == IF key = "u" \/ (modifier /\ key = "z")
              THEN undoLast(S2) ELSE S2
    IN  IF inField THEN S ELSE S3

\* a keydown event on the window: the listener is registered while
\* step === "run"
dispatchKeyDown(S, eventKey, inField, modifier) ==
    IF S.step # "run" THEN S ELSE onKeyDown(S, eventKey, inField, modifier)

\* the listener is registered while step === "run"
KeyDown ==
    /\ step = "run"
    /\ \E eventKey \in Keys, inField \in BOOLEAN, modifier \in BOOLEAN :
         Set(onKeyDown(home, eventKey, inField, modifier))

\* the Fail and Pass buttons, disabled while exitVerdict is set
ClickVerdict ==
    /\ cardRendered
    /\ exitVerdict = None
    /\ \E verdict \in Verdicts : Set(recordVerdict(home, verdict))

\* the Undo button, disabled when cursor === 0 or exitVerdict is set
ClickUndo ==
    /\ cardRendered
    /\ ~(cursor = 0 \/ exitVerdict # None)
    /\ Set(undoLast(home))

-----------------------------------------------------------------------------
(* Navigation, plan input and report history *)

\* the Home buttons of the input and report panels
GoHome ==
    /\ step \in {"input", "report"}
    /\ Set([home EXCEPT !.step = "start"])

\* Open Report History, disabled when history is empty
OpenHistory ==
    /\ step = "start"
    /\ history # <<>>
    /\ Set([home EXCEPT !.step = "report"])

\* typing in the plan textarea
EditPlan ==
    /\ step = "input"
    /\ \E text \in PlanTexts : Set([home EXCEPT !.jsonDraft = text])

\* history.filter((item) => item.id !== reportId)
RECURSIVE withoutReport(_, _)
withoutReport(h, reportId) ==
    IF h = <<>> THEN <<>>
    ELSE IF Head(h).id = reportId THEN withoutReport(Tail(h), reportId)
    ELSE <<Head(h)>> \o withoutReport(Tail(h), reportId)

\* nextHistory[0]?.id ?? null
frontId(h) == IF h = <<>> THEN None ELSE [id |-> h[1].id]

\* faulty deleteReport: leaves the selection on the deleted report
deleteReport_KeepsSelection(S, reportId) ==
    [S EXCEPT !.history = withoutReport(S.history, reportId)]

deleteReport(S, reportId) ==
    LET nextHistory == withoutReport(S.history, reportId)
    IN  [S EXCEPT !.history = nextHistory,
                  !.activeReportId =
                      IF S.activeReportId = [id |-> reportId]
                      THEN frontId(nextHistory)
                      ELSE S.activeReportId]

\* faulty clearHistory: empties the list and leaves the selection
clearHistory_KeepsSelection(S) == [S EXCEPT !.history = <<>>]

clearHistory(S) == [S EXCEPT !.history = <<>>, !.activeReportId = None]

\* the Delete button of a history entry
DeleteReport ==
    /\ step = "report"
    /\ \E i \in 1..Len(history) : Set(deleteReport(home, history[i].id))

\* Clear All
ClearHistory ==
    /\ step = "report"
    /\ history # <<>>
    /\ Set(clearHistory(home))

\* choosing an entry of the history list
SelectReport ==
    /\ step = "report"
    /\ \E i \in 1..Len(history) :
         Set([home EXCEPT !.activeReportId = [id |-> history[i].id]])

-----------------------------------------------------------------------------

Next ==
    \/ OpenNewPlan
    \/ SubmitPlan
    \/ EditPlan
    \/ EditComment
    \/ KeyDown
    \/ ClickVerdict
    \/ ClickUndo
    \/ PointerDown
    \/ PointerMove
    \/ PointerUp
    \/ PointerCancel
    \/ TimerFires
    \/ GoHome
    \/ OpenHistory
    \/ DeleteReport
    \/ ClearHistory
    \/ SelectReport

Spec == Init /\ [][Next]_vars

-----------------------------------------------------------------------------
(* Sessions that follow one another, driven by the buttons: several reports *)
(* are built and deleted; the newest report stays the selected one.         *)

\* Load Plan and Start Swiping
StartSession ==
    /\ step = "input"
    /\ nextId <= MaxSessions
    /\ LET parsed == parsePlan(jsonDraft)
       IN  parsed.error = None => Len(parsed.flattened) <= MaxTests
    /\ Set([submitPlan(home) EXCEPT
              !.abandonedPending =
                  abandonedPending /\ parsePlan(jsonDraft).error # None])

NextSessions ==
    \/ OpenNewPlan
    \/ StartSession
    \/ EditPlan
    \/ EditComment
    \/ ClickVerdict
    \/ ClickUndo
    \/ TimerFires
    \/ GoHome
    \/ OpenHistory
    \/ DeleteReport
    \/ ClearHistory

SessionsSpec == Init /\ [][NextSessions]_vars

-----------------------------------------------------------------------------
(* The parser and the report builder on many plans: the input panel holds   *)
(* any of the parser texts, the plan is loaded and run with the buttons.    *)

InitPlan ==
    /\ step = "input"
    /\ suiteName = <<"Regression Plan">>
    /\ jsonDraft \in ParserTexts
    /\ parseError = None
    /\ sourcePlan = None
    /\ tests = <<>>
    /\ cursor = 0
    /\ results = <<>>
    /\ commentDrafts = <<>>
    /\ dragOffset = 0
    /\ isDragging = FALSE
    /\ exitVerdict = None
    /\ pointerRef = None
    /\ swipeTimeoutRef = None
    /\ history = <<>>
    /\ activeReportId = None
    /\ nextId = 1
    /\ mounted = TRUE
    /\ storage = stringify(<<>>)
    /\ pressed = [p \in GesturePointers |-> None]
    /\ abandonedPending = FALSE
    /\ InstallPromptInitial
    /\ WorkerInitial

\* Load Plan and Start Swiping
LoadPlan ==
    /\ step = "input"
    /\ Set(submitPlan(home))

NextPlan ==
    \/ LoadPlan
    \/ ClickVerdict
    \/ TimerFires

PlanSpec == InitPlan /\ [][NextPlan]_vars

-----------------------------------------------------------------------------
(* The delayed commit under fairness: a timer that is armed and not         *)
(* cancelled fires after its 220 ms.                                        *)

NextLive ==
    \/ OpenNewPlan
    \/ EditPlan
    \/ SubmitPlan
    \/ EditComment
    \/ KeyDown
    \/ ClickVerdict
    \/ ClickUndo
    \/ TimerFires
    \/ GoHome
    \/ OpenHistory

\* what a step of TimerFires does to the timer and the panel: the timer is
\* disarmed and the panel is the run panel or the report panel; it is
\* enabled exactly when the timer is armed, as TimerFires is
TimerElapses ==
    /\ swipeTimeoutRef # None
    /\ swipeTimeoutRef' = None
    /\ step' \in {"run", "report"}

LiveSpec ==
    Init /\ [][NextLive]_vars /\ WF_<<swipeTimeoutRef, step>>(TimerElapses)

-----------------------------------------------------------------------------
(* Gestures of two pointers and the keyboard on the runs of a plan.  Each   *)
(* pointer makes one gesture at a time: it goes down on the card or on a    *)
(* control inside the card, moves, and is released or cancelled; pressed    *)
(* records where the gesture began and what its own movement amounts to.    *)

\* clientX of the moves
MoveXs == {11, 120}

\* clientX of the releases
ReleaseXs == {0 - 121, 0 - 120, 120, 121}

\* where pointer p goes down
DownPointOf(p) == [clientX |-> IF p = 1 THEN 0 ELSE 1, clientY |-> 0]

\* the keys pressed
GestureKeys == {"P", "f", "ArrowLeft", "U", "z"}

\* the phase of the gesture g of pointer p after a move to (clientX, clientY):
\* pending within the deadzone, locked once the movement is horizontal,
\* cancelled once it is predominantly vertical
phaseAfterMove(g, p, clientX, clientY) ==
    LET absX == Abs(clientX - DownPointOf(p).clientX)
        absY == Abs(clientY - DownPointOf(p).clientY)
    IN  IF g.phase # "pending" THEN g.phase
        ELSE IF absY > 10 /\ absY > absX THEN "cancelled"
        ELSE IF absX > 10 /\ absX >= absY THEN "locked"
        ELSE "pending"

InitGesture ==
    /\ step = "input"
    /\ suiteName = <<"Regression Plan">>
    /\ jsonDraft = PlanTwoTests
    /\ parseError = None
    /\ sourcePlan = None
    /\ tests = <<>>
    /\ cursor = 0
    /\ results = <<>>
    /\ commentDrafts = <<>>
    /\ dragOffset = 0
    /\ isDragging = FALSE
    /\ exitVerdict = None
    /\ pointerRef = None
    /\ swipeTimeoutRef = None
    /\ history = <<>>
    /\ activeReportId = None
    /\ nextId = 1
    /\ mounted = TRUE
    /\ storage = stringify(<<>>)
    /\ pressed = [p \in GesturePointers |-> None]
    /\ abandonedPending = FALSE
    /\ InstallPromptInitial
    /\ WorkerInitial

\* Load Plan and Start Swiping
StartGestureRun ==
    /\ step = "input"
    /\ nextId <= MaxGestureRuns
    /\ Set([submitPlan(home) EXCEPT
              !.abandonedPending =
                  abandonedPending /\ parsePlan(jsonDraft).error # None])

GestureDown ==
    /\ cardRendered
    /\ \E p \in GesturePointers, onControl \in BOOLEAN :
         /\ pressed[p] = None
         /\ Set([handlePointerDown(home, p, DownPointOf(p).clientX,
                                   DownPointOf(p).clientY, onControl)
                   EXCEPT !.pressed[p] =
                       [onControl |-> onControl, phase |-> "pending"]])

GestureMove ==
    /\ cardRendered
    /\ \E p \in GesturePointers, clientX \in MoveXs, clientY \in ClientYs :
         /\ pressed[p] # None
         /\ Set([handlePointerMove(home, p, clientX, clientY)
                   EXCEPT !.pressed[p].phase =
                       phaseAfterMove(pressed[p], p, clientX, clientY)])

GestureUp ==
    /\ cardRendered
    /\ \E p \in GesturePointers, clientX \in ReleaseXs :
         /\ pressed[p] # None
         /\ Set([handlePointerUp(home, p, clientX)
                   EXCEPT !.pressed[p] = None])

GestureCancel ==
    /\ cardRendered
    /\ \E p \in GesturePointers :
         /\ pressed[p] # None
         /\ Set([handlePointerCancel(home, p) EXCEPT !.pressed[p] = None])

\* a pointer is released while no card is rendered: no handler runs
ReleaseOffCard ==
    /\ ~cardRendered
    /\ \E p \in GesturePointers :
         /\ pressed[p] # None
         /\ Set([home EXCEPT !.pressed[p] = None])

KeyPress ==
    \E eventKey \in GestureKeys, inField \in BOOLEAN, modifier \in BOOLEAN :
      Set(dispatchKeyDown(home, eventKey, inField, modifier))

NextGesture ==
    \/ StartGestureRun
    \/ OpenNewPlan
    \/ GestureDown
    \/ GestureMove
    \/ GestureUp
    \/ GestureCancel
    \/ ReleaseOffCard
    \/ KeyPress
    \/ TimerFires

GestureSpec == InitGesture /\ [][NextGesture]_vars

-----------------------------------------------------------------------------
(* The history store across page loads: the page is opened on a store that  *)
(* holds no entry, a text that is no JSON, a JSON value that is no array,   *)
(* or a history the program saved; runs are made with the buttons and the   *)
(* page is loaded again.                                                    *)

\* a report of a one-test run of PlanOneTest, as finishRun builds it
storedReport(id) ==
    LET plan == parsePlan(PlanOneTest)
    IN  buildReport(id, id, <<"Regression Plan">>, plan.source,
          <<entryOf(plan.flattened[1],
                    IF id % 2 = 0 THEN "pass" ELSE "fail", <<>>)>>)

\* a history of n reports, newest first
storedHistory(n) == [i \in 1..n |-> storedReport(n + 1 - i)]

\* the values found under HISTORY_STORAGE_KEY when the page is opened
StoredValues ==
    { None, [type |-> "empty"], [type |-> "invalid"], [type |-> "scalar"],
      [type |-> "object", members |-> <<>>] }
    \cup { stringify(storedHistory(n)) :
             n \in {0, 1, MAX_HISTORY_ITEMS - 1, MAX_HISTORY_ITEMS} }

\* the first render, before its effects have run
InitStore ==
    /\ step = "start"
    /\ suiteName = <<"Regression Plan">>
    /\ jsonDraft = SAMPLE_PLAN
    /\ parseError = None
    /\ sourcePlan = None
    /\ tests = <<>>
    /\ cursor = 0
    /\ results = <<>>
    /\ commentDrafts = <<>>
    /\ dragOffset = 0
    /\ isDragging = FALSE
    /\ exitVerdict = None
    /\ pointerRef = None
    /\ swipeTimeoutRef = None
    /\ history = <<>>
    /\ activeReportId = None
    /\ nextId = MAX_HISTORY_ITEMS + 1
    /\ mounted = FALSE
    /\ storage \in StoredValues
    /\ pressed = [p \in GesturePointers |-> None]
    /\ abandonedPending = FALSE
    /\ InstallPromptInitial
    /\ WorkerInitial

\* the rest of the load effect: the stored install preference and the display
\* mode; setInstallDismissed(true) when the entry is "1", setIsInstalled(true)
\* when the page is displayed standalone
readInstallState(S) ==
    [S EXCEPT !.installDismissed =
                  IF S.dismissStorage = [value |-> "1"] THEN TRUE ELSE @,
              !.isInstalled = IF S.standalone THEN TRUE ELSE @]

\* faulty load effect: a text that cannot be parsed stays in the store
loadHistory_KeepsCorrupt(S) ==
    LET raw == S.storage
    IN  IF raw = None \/ raw.type = "empty" THEN S
        ELSE readInstallState(
          IF raw.type = "invalid" THEN S
          ELSE IF raw.type = "array"
          THEN LET parsed == parseReports(raw)
               IN  [S EXCEPT !.history = parsed,
                             !.activeReportId =
                                 IF parsed = <<>> THEN None
                                 ELSE [id |-> parsed[1].id]]
          ELSE S)

\* the effect of the first render: getItem and the return when the entry is
\* missing or empty; JSON.parse, Array.isArray, setHistory and
\* setActiveReportId, removeItem when JSON.parse throws; then the install
\* preference and the display mode
loadHistory(S) ==
    LET raw == S.storage
    IN  IF raw = None \/ raw.type = "empty" THEN S
        ELSE readInstallState(
          IF raw.type = "invalid" THEN [S EXCEPT !.storage = None]
          ELSE IF raw.type = "array"
          THEN LET parsed == parseReports(raw)
               IN  [S EXCEPT !.history = parsed,
                             !.activeReportId =
                                 IF parsed = <<>> THEN None
                                 ELSE [id |-> parsed[1].id]]
          ELSE S)

\* the effects of the first render, and the render they ask for
Mount ==
    /\ ~mounted
    /\ Set([loadHistory(home) EXCEPT !.mounted = TRUE])

\* the page is loaded again: the component starts from its initial state,
\* a pending timer is cancelled by the cleanup, the store is kept
Reload ==
    /\ mounted
    /\ Set([home EXCEPT !.step = "start",
                        !.suiteName = <<"Regression Plan">>,
                        !.jsonDraft = SAMPLE_PLAN,
                        !.parseError = None,
                        !.sourcePlan = None,
                        !.tests = <<>>,
                        !.cursor = 0,
                        !.results = <<>>,
                        !.commentDrafts = <<>>,
                        !.dragOffset = 0,
                        !.isDragging = FALSE,
                        !.exitVerdict = None,
                        !.pointerRef = None,
                        !.swipeTimeoutRef = None,
                        !.history = <<>>,
                        !.activeReportId = None,
                        !.mounted = FALSE,
                        !.abandonedPending = FALSE,
                        !.installDismissed = FALSE,
                        !.isInstalled = FALSE,
                        !.deferredInstallPrompt = None])

\* Load Plan and Start Swiping
StartStoredRun ==
    /\ step = "input"
    /\ nextId <= MAX_HISTORY_ITEMS + MaxStoredRuns
    /\ LET parsed == parsePlan(jsonDraft)
       IN  parsed.error = None => Len(parsed.flattened) <= MaxTests
    /\ Set([submitPlan(home) EXCEPT
              !.abandonedPending =
                  abandonedPending /\ parsePlan(jsonDraft).error # None])

NextStore ==
    \/ Mount
    \/ Reload
    \/ mounted /\ OpenNewPlan
    \/ mounted /\ EditPlan
    \/ mounted /\ StartStoredRun
    \/ mounted /\ ClickVerdict
    \/ mounted /\ TimerFires
    \/ mounted /\ ClearHistory

StoreSpec == InitStore /\ [][NextStore]_vars

-----------------------------------------------------------------------------
(***************************************************************************)
(* The install prompt.  The page is opened on a store that holds some      *)
(* value under the history key; the browser offers the installation        *)
(* (beforeinstallprompt) and reports it (appinstalled); between two visits *)
(* the history entry of the store may have become any of the values a      *)
(* visit can find.                                                          *)
(***************************************************************************)

\* onBeforeInstallPrompt: preventDefault and setDeferredInstallPrompt(event)
onBeforeInstallPrompt(S) ==
    [S EXCEPT !.deferredInstallPrompt = [event |-> "beforeinstallprompt"]]

\* onAppInstalled
onAppInstalled(S) ==
    [S EXCEPT !.isInstalled = TRUE, !.deferredInstallPrompt = None]

\* triggerInstall, with the choice the user makes in the browser's dialog
triggerInstall(S, outcome) ==
    IF S.deferredInstallPrompt = None THEN S
    ELSE IF outcome = "accepted"
    THEN [S EXCEPT !.deferredInstallPrompt = None]
    ELSE S

\* dismissInstallPrompt: setInstallDismissed(true) and setItem(key, "1")
dismissInstallPrompt(S) ==
    [S EXCEPT !.installDismissed = TRUE, !.dismissStorage = [value |-> "1"]]

\* const showInstallPrompt
showInstallPrompt(S) ==
    /\ S.step = "start"
    /\ ~S.isInstalled
    /\ ~S.installDismissed
    /\ S.deferredInstallPrompt # None

\* the values a visit can find under the history key
InstallStoredValues ==
    { None, [type |-> "empty"], [type |-> "invalid"], [type |-> "scalar"],
      stringify(<<>>), stringify(storedHistory(1)) }

\* the first render of the first visit that has a preference to store
InitInstall ==
    /\ step = "start"
    /\ suiteName = <<"Regression Plan">>
    /\ jsonDraft = SAMPLE_PLAN
    /\ parseError = None
    /\ sourcePlan = None
    /\ tests = <<>>
    /\ cursor = 0
    /\ results = <<>>
    /\ commentDrafts = <<>>
    /\ dragOffset = 0
    /\ isDragging = FALSE
    /\ exitVerdict = None
    /\ pointerRef = None
    /\ swipeTimeoutRef = None
    /\ history = <<>>
    /\ activeReportId = None
    /\ nextId = 2
    /\ mounted = FALSE
    /\ storage \in InstallStoredValues
    /\ pressed = [p \in GesturePointers |-> None]
    /\ abandonedPending = FALSE
    /\ installDismissed = FALSE
    /\ isInstalled = FALSE
    /\ deferredInstallPrompt = None
    /\ dismissStorage = None
    /\ standalone \in BOOLEAN
    /\ WorkerInitial

\* the browser offers the installation to the page
BeforeInstallPrompt ==
    /\ mounted
    /\ Set(onBeforeInstallPrompt(home))

\* the browser reports that the application was installed
AppInstalled ==
    /\ mounted
    /\ Set(onAppInstalled(home))

\* Install App
TriggerInstall ==
    /\ mounted
    /\ showInstallPrompt(home)
    /\ \E outcome \in {"accepted", "dismissed"} :
         Set(triggerInstall(home, outcome))

\* Don't Show Again
DismissInstallPrompt ==
    /\ mounted
    /\ showInstallPrompt(home)
    /\ Set(dismissInstallPrompt(home))

\* while the page is closed, the history entry of the store becomes another
\* of the values a visit can find
StoreChanges ==
    /\ ~mounted
    /\ \E value \in InstallStoredValues :
         Set([home EXCEPT !.storage = value])

NextInstall ==
    \/ Mount
    \/ Reload
    \/ StoreChanges
    \/ BeforeInstallPrompt
    \/ AppInstalled
    \/ TriggerInstall
    \/ DismissInstallPrompt
    \/ mounted /\ OpenNewPlan
    \/ mounted /\ GoHome
    \/ mounted /\ OpenHistory
    \/ mounted /\ ClearHistory

InstallSpec == InitInstall /\ [][NextInstall]_vars

-----------------------------------------------------------------------------
(***************************************************************************)
(* The service worker (public/sw.js).  A URL of the worker's origin is its *)
(* path, a sequence of segments; a response is what the server sent; a     *)
(* cache is a set of entries [url, response] with one entry per URL, and   *)
(* the cache storage is the sequence of the caches in the order they were  *)
(* created, which is the order caches.match searches them.                 *)
(***************************************************************************)

STATIC_CACHE == "testr-static-v1"

RUNTIME_CACHE == "testr-runtime-v1"

RootPath == <<>>

OfflinePath == <<"offline">>

PRECACHE_URLS ==
    << RootPath, OfflinePath, <<"manifest.webmanifest">>,
       <<"icons", "icon-192.png">>, <<"icons", "icon-512.png">>,
       <<"icons", "icon-maskable-512.png">>,
       <<"icons", "apple-touch-icon.png">> >>

\* what the server answers with: the content it has at the time
Bodies == {"first", "second"}

Responses == { [status |-> 200, body |-> b] : b \in Bodies }

\* fetch(request): a response, or None when the promise rejects
NetworkOutcomes == {None} \cup Responses

\* caches.open(name): the cache is created when it does not exist
open(cs, name) ==
    IF \E i \in 1..Len(cs) : cs[i].name = name THEN cs
    ELSE Append(cs, [name |-> name, entries |-> {}])

\* cache.match(url)
matchIn(entries, url) ==
    IF \E e \in entries : e.url = url
    THEN (CHOOSE e \in entries : e.url = url).response
    ELSE None

\* caches.match(url): the first match, in the order the caches were created
RECURSIVE match(_, _)
match(cs, url) ==
    IF cs = <<>> THEN None
    ELSE IF matchIn(Head(cs).entries, url) # None
    THEN matchIn(Head(cs).entries, url)
    ELSE match(Tail(cs), url)

\* cache.put(url, response) on the cache called name, once it has settled;
\* a cache that was deleted in the meantime is not in the storage any more
put(cs, name, url, response) ==
    [i \in 1..Len(cs) |->
        IF cs[i].name = name
        THEN [cs[i] EXCEPT !.entries =
                { e \in @ : e.url # url }
                  \cup {[url |-> url, response |-> response]}]
        ELSE cs[i]]

\* cache.addAll(urls), every URL answered with the same content
RECURSIVE addAll(_, _, _, _)
addAll(cs, name, urls, response) ==
    IF urls = <<>> THEN cs
    ELSE addAll(put(cs, name, Head(urls), response), name, Tail(urls),
                response)

\* the activate listener: every cache but the two of this version is deleted
RECURSIVE activate(_)
activate(cs) ==
    IF cs = <<>> THEN <<>>
    ELSE IF Head(cs).name # STATIC_CACHE /\ Head(cs).name # RUNTIME_CACHE
    THEN activate(Tail(cs))
    ELSE <<Head(cs)>> \o activate(Tail(cs))

\* url.pathname.startsWith(prefix + "/")
startsWith(path, prefix) ==
    /\ Len(path) > Len(prefix)
    /\ SubSeq(path, 1, Len(prefix)) = prefix

\* what a handler of the fetch listener gives: the response the page gets
\* (None when the promise rejects), the storage, and the put it has started
answer(response, cs, started) ==
    [intercepted |-> TRUE, response |-> response, caches |-> cs,
     put |-> started]

cacheFirst(cs, request, net) ==
    LET cached == match(cs, request.path)
    IN  IF cached # None THEN answer(cached, cs, None)
        ELSE IF net = None THEN answer(None, cs, None)
        ELSE answer(net, open(cs, RUNTIME_CACHE),
                    [cache |-> RUNTIME_CACHE, url |-> request.path,
                     response |-> net])

\* faulty networkFirst: no offline page for a navigation
networkFirst_NoOfflinePage(cs, request, net) ==
    IF net # None
    THEN answer(net, open(cs, RUNTIME_CACHE),
                [cache |-> RUNTIME_CACHE, url |-> request.path,
                 response |-> net])
    ELSE answer(match(cs, request.path), cs, None)

networkFirst(cs, request, net) ==
    IF net # None
    THEN answer(net, open(cs, RUNTIME_CACHE),
                [cache |-> RUNTIME_CACHE, url |-> request.path,
                 response |-> net])
    ELSE
      LET cached == match(cs, request.path)
      IN  IF cached # None THEN answer(cached, cs, None)
          ELSE IF request.mode = "navigate" /\ match(cs, OfflinePath) # None
          THEN answer(match(cs, OfflinePath), cs, None)
          ELSE answer(None, cs, None)

\* the fetch listener; a request it returns from without respondWith is
\* answered by the browser from the network
onFetch(cs, request, net) ==
    IF request.method # "GET" \/ request.origin # "self"
    THEN [intercepted |-> FALSE, response |-> net, caches |-> cs,
          put |-> None]
    ELSE IF request.mode = "navigate" THEN networkFirst(cs, request, net)
    ELSE IF \/ startsWith(request.path, <<"_next", "static">>)
            \/ startsWith(request.path, <<"icons">>)
            \/ request.path = <<"manifest.webmanifest">>
    THEN cacheFirst(cs, request, net)
    ELSE networkFirst(cs, request, net)

\* the install listener: caches.open(STATIC_CACHE) and addAll, which rejects
\* when a URL cannot be fetched
install(cs, net) ==
    IF net = None THEN open(cs, STATIC_CACHE)
    ELSE addAll(open(cs, STATIC_CACHE), STATIC_CACHE, PRECACHE_URLS, net)

\* the requests the pages of the origin make
Requests ==
    { [method |-> "GET", origin |-> "self", mode |-> "navigate",
       path |-> RootPath],
      [method |-> "GET", origin |-> "self", mode |-> "navigate",
       path |-> <<"report">>],
      [method |-> "GET", origin |-> "self", mode |-> "no-cors",
       path |-> <<"_next", "static", "app.js">>],
      [method |-> "GET", origin |-> "self", mode |-> "cors",
       path |-> <<"api">>],
      [method |-> "POST", origin |-> "self", mode |-> "navigate",
       path |-> RootPath],
      [method |-> "GET", origin |-> "other", mode |-> "navigate",
       path |-> RootPath] }

\* every request the listener can be given
AllRequests ==
    [method : {"GET", "POST"}, origin : {"self", "other"},
     mode : {"navigate", "no-cors"},
     path : {RootPath, OfflinePath, <<"report">>,
             <<"icons", "icon-192.png">>, <<"_next", "static", "app.js">>}]

\* a cache of an earlier version of the worker
OldCache ==
    [name |-> "testr-static-v0",
     entries |-> {[url |-> OfflinePath,
                   response |-> [status |-> 200, body |-> "first"]]}]

\* the page as constructed, and an origin whose worker is not installed yet
InitWorker ==
    /\ step = "start"
    /\ suiteName = <<"Regression Plan">>
    /\ jsonDraft = SAMPLE_PLAN
    /\ parseError = None
    /\ sourcePlan = None
    /\ tests = <<>>
    /\ cursor = 0
    /\ results = <<>>
    /\ commentDrafts = <<>>
    /\ dragOffset = 0
    /\ isDragging = FALSE
    /\ exitVerdict = None
    /\ pointerRef = None
    /\ swipeTimeoutRef = None
    /\ history = <<>>
    /\ activeReportId = None
    /\ nextId = 1
    /\ mounted = TRUE
    /\ storage = stringify(<<>>)
    /\ pressed = [p \in GesturePointers |-> None]
    /\ abandonedPending = FALSE
    /\ InstallPromptInitial
    /\ worker = "none"
    /\ caches \in {<<>>, <<OldCache>>}
    /\ puts = {}
    /\ reply = None

\* the worker is installed and activated; it stays uninstalled when the
\* precache cannot be fetched
InstallWorker ==
    /\ worker = "none"
    /\ \E net \in NetworkOutcomes :
         IF net = None
         THEN /\ caches' = install(caches, net)
              /\ UNCHANGED worker
         ELSE /\ caches' = activate(install(caches, net))
              /\ worker' = "activated"
    /\ UNCHANGED <<puts, reply>>
    /\ UNCHANGED pageVars

\* a page of the origin makes a request, and the network answers or fails
FetchEvent ==
    /\ worker = "activated"
    /\ \E request \in Requests, net \in NetworkOutcomes :
         LET r == onFetch(caches, request, net)
         IN  /\ r.put # None => Cardinality(puts \cup {r.put}) <= MaxPending
             /\ caches' = r.caches
             /\ puts' = IF r.put = None THEN puts ELSE puts \cup {r.put}
             /\ reply' = [request |-> request, intercepted |-> r.intercepted,
                          response |-> r.response]
    /\ UNCHANGED worker
    /\ UNCHANGED pageVars

\* a cache.put settles
PutSettles ==
    /\ \E p \in puts :
         /\ caches' = put(caches, p.cache, p.url, p.response)
         /\ puts' = puts \ {p}
    /\ UNCHANGED <<worker, reply>>
    /\ UNCHANGED pageVars

\* a cache of the origin is deleted from outside the worker
CacheDeleted ==
    /\ \E i \in 1..Len(caches) :
         caches' = SubSeq(caches, 1, i - 1) \o SubSeq(caches, i + 1, Len(caches))
    /\ UNCHANGED <<worker, puts, reply>>
    /\ UNCHANGED pageVars

NextWorker ==
    \/ InstallWorker
    \/ FetchEvent
    \/ PutSettles
    \/ CacheDeleted

WorkerSpec == InitWorker /\ [][NextWorker]_vars

-----------------------------------------------------------------------------
(* Claims about the run engine *)

\* C1: in every reachable state the cursor is within the test list,
\* 0 <= cursor <= tests.length.
C1_CursorInRange == 0 <= cursor /\ cursor <= Len(tests)

\* the cursor at its highest value of a run, the last verdict requested
C1_Witness ==
    /\ step = "run"
    /\ cursor > 0
    /\ cursor = Len(tests) - 1
    /\ swipeTimeoutRef # None

\* the state has been left by a run that finished: nothing but the commit of
\* the last verdict leaves the run panel with the tests still loaded
runFinished == step # "run" /\ tests # <<>>

filled(rs) == Len(filterResults(rs))

\* the timer has fired in this step (an abandon leads to the input panel)
timerFired ==
    swipeTimeoutRef # None /\ swipeTimeoutRef' = None /\ step' # "input"

\* C3: while a commit is pending no step changes the cursor, the results or
\* the pending verdict, whatever is requested, and the step that fires the
\* timer writes exactly one result.
C3_PendingCommitLocksRun ==
    [][ /\ swipeTimeoutRef # None /\ swipeTimeoutRef' # None
           => /\ cursor' = cursor
              /\ results' = results
              /\ exitVerdict' = exitVerdict
              /\ swipeTimeoutRef'.verdict = swipeTimeoutRef.verdict
        /\ timerFired => filled(results') = filled(results) + 1
      ]_vars

\* a locked drag has been released beyond the threshold while a commit was
\* pending: the release was rejected, so the offset of the drag is left
C3_Witness ==
    /\ swipeTimeoutRef # None
    /\ pointerRef = None
    /\ dragOffset = 121

\* the run state after clearRunState
runCleared ==
    /\ sourcePlan = None
    /\ tests = <<>>
    /\ cursor = 0
    /\ results = <<>>
    /\ commentDrafts = <<>>

\* C4: after a run is abandoned with a commit pending, and until a plan is
\* loaded, no timer is left, the run state stays cleared and no report is
\* built.
C4_AbandonCancelsCommit ==
    /\ [](abandonedPending => swipeTimeoutRef = None /\ runCleared)
    /\ [][abandonedPending /\ abandonedPending'
            => nextId' = nextId /\ Len(history') <= Len(history)]_vars

C4_Witness == abandonedPending /\ step = "input" /\ exitVerdict = None

\* C5: the commit of verdict v at cursor c, c not the last index, stores at
\* results[c] the fields of tests[c] with verdict v, moves the cursor to
\* c + 1 and leaves the other slots and the tests as they are.
C5_CommitStoresResult ==
    [][ timerFired /\ cursor + 1 < Len(tests)
          => LET c == cursor + 1
                 t == tests[c]
                 r == results'[c]
             IN  /\ step' = "run"
                 /\ cursor' = cursor + 1
                 /\ tests' = tests
                 /\ Len(results') = Len(results)
                 /\ r # None
                 /\ r.id = t.id /\ r.category = t.category
                 /\ r.action = t.action /\ r.expected = t.expected
                 /\ r.sequence = t.sequence
                 /\ r.verdict = swipeTimeoutRef.verdict
                 /\ \A i \in 1..Len(results) :
                        i # c => results'[i] = results[i]
      ]_vars

C5_Witness ==
    /\ step = "run"
    /\ cursor = 1
    /\ exitVerdict = None
    /\ results[1] # None
    /\ results[1].verdict = "fail"
    /\ results[2] = None

\* C6 as claimed: the comment of a committed result is the trimmed draft of
\* its test as it stands when the commit is applied.  (The draft of a test
\* cannot be edited while its result is committed, so the draft at the
\* commit is the draft now.)
C6_CommentIsDraftAtCommit ==
    \A i \in 1..Len(results) :
        results[i] # None
            => results[i].comment = commentOf(commentDrafts, tests[i])

\* this step is within a run and is neither a commit nor a plan load
nonCommitRunStep == step = "run" /\ step' = "run" /\ ~timerFired

\* C7: outside commits, the cursor and the results of a run change only by
\* an undo, which happens only with cursor > 0 and no commit pending,
\* empties results[cursor-1] and decrements the cursor by one.
C7_UndoOnlyWhenAllowed ==
    [][ nonCommitRunStep /\ (cursor' # cursor \/ results' # results)
          => /\ cursor > 0
             /\ exitVerdict = None
             /\ swipeTimeoutRef = None
             /\ cursor' = cursor - 1
             /\ Len(results') = Len(results)
             /\ \A i \in 1..Len(results) :
                    results'[i] = IF i = cursor THEN None ELSE results[i]
      ]_vars

\* an undo has taken effect during a drag: the pointer is still locked, the
\* drag flag is reset and the cursor is back at 0
C7_Witness ==
    /\ step = "run"
    /\ cursor = 0
    /\ exitVerdict = None
    /\ pointerRef # None
    /\ pointerRef.locked
    /\ ~isDragging
    /\ \A i \in 1..Len(results) : results[i] = None

\* recordVerdict(v), the firing of its timer, then undoLast
commitThenUndo(S, v) == undoLast(timerCallback(recordVerdict(S, v)))

sameRun(S, T) == S.cursor = T.cursor /\ S.results = T.results

\* a verdict request would be accepted
awaitingVerdict ==
    step = "run" /\ exitVerdict = None /\ currentTest(home) # None

\* C8 as claimed: from any running state, commit then undo restores cursor
\* and results.
C8_CommitUndoRestoresAlways ==
    awaitingVerdict
        => \A v \in Verdicts : sameRun(commitThenUndo(home, v), home)

\* C8 amended: from a running state whose current test is not the last,
\* commit then undo restores cursor and results, also when repeated; the
\* commit of the last test finishes the run, and undoLast then changes
\* nothing.
C8_CommitUndoRestores ==
    awaitingVerdict =>
        \A v \in Verdicts, w \in Verdicts :
            IF cursor + 1 < Len(tests)
            THEN /\ sameRun(commitThenUndo(home, v), home)
                 /\ sameRun(commitThenUndo(commitThenUndo(home, v), w), home)
            ELSE LET S1 == timerCallback(recordVerdict(home, v))
                 IN  S1.step = "report" /\ undoLast(S1) = S1

\* a verdict was committed and undone: the second test has been current (it
\* has a draft) and the run is back at its first test with no result
C8_Witness ==
    /\ awaitingVerdict
    /\ Len(tests) = 2
    /\ cursor = 0
    /\ hasKey(commentDrafts, tests[2].id)
    /\ results = emptyResults(2)

\* the drafts of d and e differ in at most the entry of one test
oneDraftChanged(d, e) ==
    \E k \in {d[i].key : i \in 1..Len(d)} \cup {e[i].key : i \in 1..Len(e)} :
        /\ \A i \in 1..Len(d) :
              d[i].key # k => hasKey(e, d[i].key)
                              /\ getKey(e, d[i].key) = d[i].value
        /\ \A i \in 1..Len(e) :
              e[i].key # k => hasKey(d, e[i].key)

\* C9: within a run, a step that changes the cursor or the results (a commit
\* or an undo) leaves every comment draft as it is, and a step that changes
\* the drafts changes the draft of one test and neither cursor nor results.
C9_DraftsIndependentOfCommits ==
    [][ step = "run" /\ step' # "input"
          => /\ (cursor' # cursor \/ results' # results)
                   => commentDrafts' = commentDrafts
             /\ commentDrafts' # commentDrafts
                   => /\ oneDraftChanged(commentDrafts, commentDrafts')
                      /\ cursor' = cursor
                      /\ results' = results
                      /\ history' = history
      ]_vars

\* the first test is current again after an undo and its draft is still
\* there, as is the draft written for the second test
C9_Witness ==
    /\ step = "run"
    /\ Len(tests) = 2
    /\ cursor = 0
    /\ results[1] = None
    /\ hasKey(commentDrafts, tests[1].id)
    /\ hasKey(commentDrafts, tests[2].id)
    /\ getKey(commentDrafts, tests[1].id) # getKey(commentDrafts, tests[2].id)

\* C10: every report in history has passed + failed = total = the length of
\* its results, and the report of the run that has just finished has one
\* result per test of the plan.
C10_ReportTotals ==
    \A i \in 1..Len(history) :
        LET report == history[i]
        IN  /\ report.passed + report.failed = report.total
            /\ report.total = Len(report.results)
            /\ report.passed = countVerdict(report.results, "pass")
            /\ (runFinished /\ report.id = nextId - 1)
                   => Len(report.results) = Len(tests)

\* the report of a finished two-test run with one pass and one fail
C10_Witness ==
    /\ runFinished
    /\ Len(tests) = 2
    /\ Len(history) = 1
    /\ history[1].total = 2
    /\ history[1].passed = 1
    /\ hasKey(commentDrafts, tests[2].id)

\* recordVerdict(v) and the firing of its timer
commit(S, v) == timerCallback(recordVerdict(S, v))

\* the run of S continued with verdict v for each of at most n tests
RECURSIVE finishWith(_, _, _)
finishWith(S, v, n) ==
    IF n = 0 \/ S.step # "run" THEN S
    ELSE finishWith(commit(S, v), v, n - 1)

\* result r carries the fields of test t
sameTest(r, t) ==
    /\ r.id = t.id /\ r.category = t.category /\ r.action = t.action
    /\ r.expected = t.expected /\ r.sequence = t.sequence

\* C11: the report of a finished run holds, for every i, the result of
\* tests[i] at position i, equal to the result stored for it; and when a
\* verdict is committed, undone and committed again, the report carries the
\* second verdict.
C11_ReportMatchesPlan ==
    /\ (runFinished /\ history # <<>> /\ history[1].id = nextId - 1)
          => LET report == history[1]
             IN  /\ Len(report.results) = Len(tests)
                 /\ \A i \in 1..Len(tests) :
                        /\ sameTest(report.results[i], tests[i])
                        /\ report.results[i] = results[i]
    /\ (awaitingVerdict /\ cursor + 1 < Len(tests))
          => \A v1 \in Verdicts, v2 \in Verdicts, v3 \in Verdicts :
               LET S1 == commit(undoLast(commit(home, v1)), v2)
                   S2 == finishWith(S1, v3, Len(tests))
                   report == S2.history[1]
               IN  /\ S2.step = "report"
                   /\ Len(report.results) = Len(tests)
                   /\ \A i \in 1..Len(tests) :
                          /\ sameTest(report.results[i], tests[i])
                          /\ i <= cursor => report.results[i] = results[i]
                          /\ i = cursor + 1 => report.results[i].verdict = v2
                          /\ i > cursor + 1 => report.results[i].verdict = v3

\* the report of a finished two-test run, first test passed with a comment,
\* second test failed
C11_Witness ==
    /\ runFinished
    /\ Len(tests) = 2
    /\ history # <<>>
    /\ history[1].results[1].verdict = "pass"
    /\ history[1].results[1].comment = <<"ok">>
    /\ history[1].results[2].verdict = "fail"

\* C13: a run finishes exactly when the verdict of its last test is
\* committed: while the run panel shows, fewer results than tests are
\* committed; the step that leaves it for the report is the commit at the
\* last index and completes the results; a commit at the last index always
\* finishes and a commit before it never does.
C13_FinishesOnLastCommit ==
    /\ [](step = "run" => cursor < Len(tests) /\ filled(results) = cursor)
    /\ [][ /\ (step = "run" /\ step' = "report")
               => /\ timerFired
                  /\ cursor + 1 = Len(tests)
                  /\ filled(results') = Len(tests)
                  /\ history'[1].total = Len(tests)
           /\ (timerFired /\ cursor + 1 = Len(tests)) => step' = "report"
           /\ (timerFired /\ cursor + 1 < Len(tests)) => step' = "run"
         ]_vars

\* the plan with a single test has finished on its first commit
C13_Witness ==
    /\ step = "report"
    /\ Len(tests) = 1
    /\ Len(history) = 1
    /\ history[1].total = 1
    /\ history[1].passed = 1
    /\ history[1].failed = 0
    /\ history[1].byCategory
          = <<[key |-> <<"A">>,
               value |-> [passed |-> 1, failed |-> 0, total |-> 1]]>>

\* the run state of S, its drag state and its pending verdict are empty
discarded(S) ==
    /\ S.sourcePlan = None
    /\ S.tests = <<>>
    /\ S.cursor = 0
    /\ S.results = <<>>
    /\ S.commentDrafts = <<>>
    /\ S.dragOffset = 0
    /\ S.isDragging = FALSE
    /\ S.exitVerdict = None
    /\ S.swipeTimeoutRef = None

\* C30: openNewPlan, applied to any state of the run or report panel, leads
\* to the input panel with tests, cursor, results, drafts, source plan, drag
\* offset, drag flag and pending verdict empty; on the input panel they are
\* empty, and they stay empty until a plan is loaded, whose results start
\* empty.
C30_AbandonDiscardsRun ==
    /\ [](step \in {"run", "report"}
             => /\ discarded(openNewPlan(home))
                /\ openNewPlan(home).step = "input")
    /\ [](step = "input" => discarded(home))
    /\ [][step = "input"
             => \/ discarded(home')
                \/ /\ step' = "run"
                   /\ results' = emptyResults(Len(tests'))
                   /\ commentDrafts' = <<>>]_vars

\* a run was abandoned in the middle of a drag, with no verdict pending
C30_Witness ==
    /\ step = "input"
    /\ discarded(home)
    /\ pointerRef # None
    /\ pointerRef.locked
    /\ history = <<>>
    /\ ~abandonedPending

\* C33 as claimed: the step that finishes a run and builds its report leaves
\* source plan, tests, results, cursor and comment drafts empty.
C33_FinishDiscardsRun ==
    [][(step = "run" /\ step' = "report")
          => /\ sourcePlan' = None
             /\ tests' = <<>>
             /\ results' = <<>>
             /\ cursor' = 0
             /\ commentDrafts' = <<>>]_vars

\* C33 amended: the step that finishes a run keeps source plan, tests,
\* cursor and comment drafts and fills the last result; this run state
\* stays as it is on the report and start panels, until openNewPlan empties
\* it.
C33_FinishKeepsRunUntilNewPlan ==
    /\ [][(step = "run" /\ step' = "report")
            => /\ sourcePlan' = sourcePlan
               /\ tests' = tests
               /\ cursor' = cursor
               /\ commentDrafts' = commentDrafts
               /\ filled(results') = Len(tests)]_vars
    /\ [][runFinished
            => \/ UNCHANGED <<sourcePlan, tests, cursor, results,
                              commentDrafts>>
               \/ /\ step' = "input"
                  /\ sourcePlan' = None
                  /\ tests' = <<>>
                  /\ results' = <<>>
                  /\ cursor' = 0
                  /\ commentDrafts' = <<>>]_vars

\* the report of a finished run has been deleted; the start panel is shown
\* and the run state is still held
C33_Witness ==
    /\ step = "start"
    /\ history = <<>>
    /\ nextId > 1
    /\ sourcePlan # None
    /\ Len(tests) = 2
    /\ filled(results) = 2
    /\ cursor = 1

\* C36: the lock (exitVerdict) is set exactly when a timer is armed, and the
\* timer then carries the verdict of the lock; the step that disarms the
\* timer either commits that verdict for the current test or abandons the
\* run, and releases the lock; with the timer firing after its delay, every
\* pending verdict is followed by a state with no lock and no timer.
C36_PendingVerdictResolved ==
    /\ [](/\ exitVerdict # None <=> swipeTimeoutRef # None
          /\ swipeTimeoutRef # None
               => /\ swipeTimeoutRef.verdict = exitVerdict.verdict
                  /\ step = "run")
    /\ [][(swipeTimeoutRef # None /\ swipeTimeoutRef' # swipeTimeoutRef)
            => /\ swipeTimeoutRef' = None
               /\ exitVerdict' = None
               /\ IF step' = "input" THEN results' = <<>>
                  ELSE /\ results'[cursor + 1] # None
                       /\ results'[cursor + 1].verdict
                            = swipeTimeoutRef.verdict
                       /\ results'[cursor + 1].id = tests[cursor + 1].id
       ]_vars
    /\ \A v \in Verdicts :
         (exitVerdict = [verdict |-> v])
            ~> (exitVerdict = None /\ swipeTimeoutRef = None)

\* a verdict is pending for the first test of a run of two
C36_Witness ==
    /\ step = "run"
    /\ Len(tests) = 2
    /\ cursor = 0
    /\ exitVerdict = [verdict |-> "pass"]
    /\ swipeTimeoutRef # None
    /\ swipeTimeoutRef.verdict = "pass"

\* C34: on the run panel the slots of the tests before the cursor hold the
\* committed result of their test, a verdict and the fields of the test, and
\* the slots from the cursor on are empty.
C34_ResultsFollowCursor ==
    step = "run"
      => \A i \in 1..Len(results) :
           IF i <= cursor
           THEN /\ results[i] # None
                /\ results[i].verdict \in Verdicts
                /\ results[i].id = tests[i].id
                /\ results[i].sequence = tests[i].sequence
           ELSE results[i] = None

\* the first test has its result, the second is current, nothing is pending
C34_Witness ==
    /\ step = "run"
    /\ Len(tests) = 2
    /\ cursor = 1
    /\ results[1] # None
    /\ results[2] = None
    /\ exitVerdict = None
    /\ swipeTimeoutRef = None

\* C35: on the run panel the source plan is present, there are tests, the
\* results have one slot for each test, and the cursor is on a test.
C35_RunStateWellFormed ==
    step = "run"
      => /\ sourcePlan # None
         /\ tests # <<>>
         /\ Len(results) = Len(tests)
         /\ cursor < Len(tests)
         /\ currentTest(home) # None

\* the last test of a run is current and its verdict is pending
C35_Witness ==
    /\ step = "run"
    /\ sourcePlan # None
    /\ Len(tests) = 2
    /\ cursor = 1
    /\ exitVerdict # None
    /\ swipeTimeoutRef # None
    /\ Len(results) = 2

-----------------------------------------------------------------------------
(* Claims about loading a plan *)

\* S is the state of a run of the parsed plan that has just started
freshRun(S, parsed) ==
    /\ S.step = "run"
    /\ S.cursor = 0
    /\ S.tests = parsed.flattened
    /\ S.results = emptyResults(Len(parsed.flattened))
    /\ S.sourcePlan = [entries |-> parsed.source]
    /\ S.commentDrafts = <<>>
    /\ S.exitVerdict = None
    /\ S.swipeTimeoutRef = None
    /\ S.parseError = None

\* C16: every step that loads a plan that parses gives a run at cursor 0
\* with one empty result per test, no drafts and no commit pending; and so
\* does submitPlan applied to any reachable state whose draft parses (a run
\* under way, a commit pending, a finished run).
C16_LoadStartsFreshRun ==
    /\ [][(step = "input" /\ step' = "run")
              => freshRun(home', parsePlan(jsonDraft))]_vars
    /\ [](LET parsed == parsePlan(jsonDraft)
          IN  parsed.error = None => freshRun(submitPlan(home), parsed))

\* a plan of three tests has just been loaded
C16_Witness ==
    /\ step = "run"
    /\ Len(tests) = 3
    /\ cursor = 0
    /\ results = emptyResults(3)
    /\ commentDrafts = <<>>
    /\ exitVerdict = None
    /\ swipeTimeoutRef = None

\* the parser texts of at most one member that do not parse
FailingTexts ==
    {text \in { [type |-> "invalid"], [type |-> "scalar"],
                [type |-> "string", s |-> <<"x">>],
                [type |-> "array", items |-> <<>>], PlanEmpty }
                \cup { [type |-> "object", members |-> <<m>>] :
                         m \in PlanMembers } :
        parsePlan(text).error # None}

\* S and T have the same run state and history
sameSession(S, T) ==
    /\ S.step = T.step /\ S.tests = T.tests /\ S.cursor = T.cursor
    /\ S.results = T.results /\ S.sourcePlan = T.sourcePlan
    /\ S.commentDrafts = T.commentDrafts /\ S.history = T.history

\* C17: when the submitted plan does not parse, the step that submits it
\* stays on the input panel, sets the error of the parse and leaves tests,
\* cursor, results, sourcePlan and history as they are, whatever part of the
\* plan was valid; and submitPlan with a failing text leaves the run state
\* and the history of every reachable state as they are.
C17_FailedParseStartsNothing ==
    /\ [][(step = "input" /\ parsePlan(jsonDraft).error # None)
              => /\ sameSession(home', home)
                 /\ step' = "input"
                 /\ parseError' = parsePlan(jsonDraft).error]_vars
    /\ [](\A text \in FailingTexts :
              LET S1 == submitPlan([home EXCEPT !.jsonDraft = text])
              IN  /\ sameSession(S1, home)
                  /\ S1.parseError = parsePlan(text).error)

\* a plan whose first category is valid and whose second is not has been
\* submitted
C17_Witness ==
    /\ step = "input"
    /\ parseError # None
    /\ parseError.message = "must be an object"
    /\ Len(jsonDraft.members) = 2
    /\ jsonDraft.members[1].key = <<"A">>
    /\ tests = <<>>
    /\ sourcePlan = None

-----------------------------------------------------------------------------
(* Claims about the report history *)

\* this step finishes a run
finishing == step = "run" /\ step' = "report"

\* C14: the step that finishes a run is the commit of the last verdict and
\* puts exactly one report, with a new id, in front of the history; no other
\* step (a commit before the last test, an undo, a comment edit, a plan
\* load, a parse failure, an abandon, a navigation, a delete) brings a
\* report into the history.
C14_OneReportPerFinishedRun ==
    [][ /\ finishing
              => /\ timerFired
                 /\ cursor + 1 = Len(tests)
                 /\ history' = <<history'[1]>> \o history
                 /\ \A i \in 1..Len(history) : history[i].id # history'[1].id
        /\ ~finishing
              => \A j \in 1..Len(history') :
                     \E i \in 1..Len(history) : history'[j] = history[i]
      ]_vars

\* two runs have finished and each has left its report
C14_Witness ==
    /\ step = "report"
    /\ Len(history) = 2
    /\ history[1].id = 2
    /\ history[2].id = 1
    /\ history[1].total = 2
    /\ history[2].total = 1

C22_AppendAtFrontDropsTail ==
    /\ [](LET report == storedReport(nextId)
              appended == appendReport(report, history)
          IN  /\ appended[1] = report
              /\ Len(appended) = Min(Len(history) + 1, MAX_HISTORY_ITEMS)
              /\ \A i \in 2..Len(appended) : appended[i] = history[i - 1])
    /\ [][finishing
            => /\ history'[1].id = nextId
               /\ Len(history') = Min(Len(history) + 1, MAX_HISTORY_ITEMS)
               /\ \A i \in 2..Len(history') : history'[i] = history[i - 1]
       ]_vars

\* a run has finished on a full history: the new report is at the front and
\* the oldest report is gone
C22_Witness ==
    /\ step = "report"
    /\ Len(history) = MAX_HISTORY_ITEMS
    /\ history[1].id = MAX_HISTORY_ITEMS + 1
    /\ history[MAX_HISTORY_ITEMS].id = 2

corruptStore(S) == S.storage # None /\ S.storage.type = "invalid"

\* C25: when the stored text cannot be parsed, the load effect removes the
\* entry and sets no state: after the mount the history is empty, no report
\* is selected, no error is shown, the start panel is shown and the store
\* no longer holds the text.
C25_CorruptStoreDiscarded ==
    /\ []((~mounted /\ corruptStore(home))
             => loadHistory(home) = [home EXCEPT !.storage = None])
    /\ [][(~mounted /\ corruptStore(home) /\ mounted')
             => /\ history' = <<>>
                /\ activeReportId' = None
                /\ parseError' = None
                /\ step' = "start"
                /\ ~corruptStore(home')
       ]_vars

\* the page is opened on a corrupt store
C25_Witness ==
    /\ ~mounted
    /\ corruptStore(home)
    /\ loadHistory(home).storage = None

\* C24: deleteReport(id), applied to any reachable state with any report
\* selected, removes the entry with that id and keeps the others in their
\* order; when no entry has the id, history and selection are unchanged;
\* when the removed entry was selected, the selection becomes the new front
\* entry or none; otherwise the selection is unchanged; nothing else
\* changes.
C24_RemoveReport ==
    \A id \in 1..nextId :
      \A selected \in {activeReportId}
                        \cup {[id |-> history[k].id] : k \in 1..Len(history)} :
        LET S0 == [home EXCEPT !.activeReportId = selected]
            S1 == deleteReport(S0, id)
            present == \E i \in 1..Len(history) : history[i].id = id
            kept(report) == report.id # id
        IN  /\ S1.history = SelectSeq(history, kept)
            /\ ~present => S1.history = history /\ S1.activeReportId = selected
            /\ (present /\ selected = [id |-> id])
                  => S1.activeReportId
                       = IF S1.history = <<>> THEN None
                         ELSE [id |-> S1.history[1].id]
            /\ selected # [id |-> id] => S1.activeReportId = selected
            /\ S1 = [S0 EXCEPT !.history = S1.history,
                               !.activeReportId = S1.activeReportId]

\* the older of two reports has been deleted; the newer one is still the
\* selected one
C24_Witness ==
    /\ step = "report"
    /\ nextId = 3
    /\ Len(history) = 1
    /\ history[1].id = 2
    /\ activeReportId = [id |-> 2]

-----------------------------------------------------------------------------
(* Claims about the report builder and the parser *)

\* the number of results of category c with verdict v
countIn(rs, c, v) ==
    Cardinality({i \in 1..Len(rs) : rs[i].category = c /\ rs[i].verdict = v})

\* the sum of a count over the entries of a category summary
RECURSIVE sumOf(_, _)
sumOf(summary, field) ==
    IF summary = <<>> THEN 0
    ELSE summary[1].value[field] + sumOf(Tail(summary), field)

\* C12 as claimed: in every report byCategory has exactly one entry per
\* category occurring in the results, each entry counts the pass and fail
\* results of its category with passed + failed = total, and the counts of
\* all entries sum to the passed, failed and total of the report.
C12_CategorySummary ==
    \A n \in 1..Len(history) :
        LET report == history[n]
            by == report.byCategory
            rs == report.results
        IN  /\ {by[i].key : i \in 1..Len(by)}
                  = {rs[i].category : i \in 1..Len(rs)}
            /\ \A i \in 1..Len(by), j \in 1..Len(by) :
                   by[i].key = by[j].key => i = j
            /\ \A i \in 1..Len(by) :
                   /\ by[i].value.passed = countIn(rs, by[i].key, "pass")
                   /\ by[i].value.failed = countIn(rs, by[i].key, "fail")
                   /\ by[i].value.passed + by[i].value.failed
                          = by[i].value.total
            /\ sumOf(by, "passed") = report.passed
            /\ sumOf(by, "failed") = report.failed
            /\ sumOf(by, "total") = report.total

\* the messages of the validation errors
ValidationMessages ==
    {"Invalid JSON. Check commas, quotes, and brackets.",
     "The root value must be an object of categories.",
     "Category names cannot be empty.",
     "must contain an array",
     "must be an object",
     "needs non-empty action/result",
     "No tests were found in the plan."}

\* the categories of a plan text, as JSON.parse yields them
categoriesOf(text) ==
    IF text.type = "object" THEN jsonObject(text.members) ELSE <<>>

\* the item is an object with a non-blank string action and result
validItem(item) ==
    /\ item.type = "object"
    /\ \A name \in {<<"action">>, <<"result">>} :
          LET fields == jsonObject(item.members)
          IN  /\ hasKey(fields, name)
              /\ getKey(fields, name).type = "string"
              /\ \E i \in 1..Len(getKey(fields, name).s) :
                    getKey(fields, name).s[i] \notin WhiteSpace

\* C18: the parse of the submitted text either succeeds with at least one
\* test or fails with one of the validation errors: a text that is no JSON
\* and a root that is no object fail with their errors; an empty object and
\* a plan whose categories are all empty arrays fail with the no-tests
\* error; an invalid item anywhere fails the plan; and a run is started
\* only with one test or more.
C18_ParseRejectsOrSucceeds ==
    LET parsed == parsePlan(jsonDraft)
        cats == categoriesOf(jsonDraft)
    IN  /\ \/ parsed.error = None /\ Len(parsed.flattened) >= 1
           \/ parsed.error # None
                /\ parsed.error.message \in ValidationMessages
        /\ jsonDraft.type = "invalid"
              => parsed.error # None
                 /\ parsed.error.message
                      = "Invalid JSON. Check commas, quotes, and brackets."
        /\ jsonDraft.type \in {"scalar", "string", "array"}
              => parsed.error # None
                 /\ parsed.error.message
                      = "The root value must be an object of categories."
        /\ (/\ jsonDraft.type = "object"
            /\ \A i \in 1..Len(cats) :
                  /\ trim(cats[i].key) # <<>>
                  /\ cats[i].value.type = "array"
                  /\ cats[i].value.items = <<>>)
              => parsed.error # None
                 /\ parsed.error.message = "No tests were found in the plan."
        /\ (\E i \in 1..Len(cats) :
              /\ cats[i].value.type = "array"
              /\ \E k \in 1..Len(cats[i].value.items) :
                    ~validItem(cats[i].value.items[k]))
              => parsed.error # None
        /\ step = "run" => tests = parsed.flattened /\ Len(tests) >= 1
        /\ (step = "input" /\ parseError # None) => parseError = parsed.error

\* a plan of two categories, both without tests, has been rejected
C18_Witness ==
    /\ step = "input"
    /\ parseError # None
    /\ parseError.message = "No tests were found in the plan."
    /\ Len(jsonDraft.members) = 2
    /\ tests = <<>>

\* the tests of the categories, in the order of the categories and of their
\* items, as [category, action, expected]
RECURSIVE testsInOrder(_)
testsInOrder(members) ==
    IF members = <<>> THEN <<>>
    ELSE LET m == members[1]
         IN  [k \in 1..Len(m.value.items) |->
                [category |-> trim(m.key),
                 action |-> fieldOf(m.value.items[k], <<"action">>),
                 expected |-> fieldOf(m.value.items[k], <<"result">>)]]
             \o testsInOrder(Tail(members))

\* the category keys of the text are distinct as written
distinctKeys(members) ==
    \A i \in 1..Len(members), j \in 1..Len(members) :
        members[i].key = members[j].key => i = j

\* C19 as claimed: when the plan parses, the flattened tests are the tests
\* of the text in category order then item order, and flattened[i] has
\* sequence i + 1 (position i of the sequence, counted from 1).
C19_FlattenedInInputOrder ==
    LET parsed == parsePlan(jsonDraft)
    IN  (parsed.error = None /\ distinctKeys(jsonDraft.members))
          => LET expected == testsInOrder(jsonDraft.members)
                 flattened == parsed.flattened
             IN  /\ Len(flattened) = Len(expected)
                 /\ \A i \in 1..Len(flattened) :
                        /\ flattened[i].category = expected[i].category
                        /\ flattened[i].action = expected[i].action
                        /\ flattened[i].expected = expected[i].expected
                        /\ flattened[i].sequence = i

\* the flattened tests grouped by category, in order, as an object of
\* [action, result] lists
RECURSIVE regroup(_)
regroup(flattened) ==
    IF flattened = <<>> THEN <<>>
    ELSE LET before == regroup(SubSeq(flattened, 1, Len(flattened) - 1))
             t == flattened[Len(flattened)]
             item == [action |-> t.action, result |-> t.expected]
         IN  setKey(before, t.category,
                    IF hasKey(before, t.category)
                    THEN Append(getKey(before, t.category), item)
                    ELSE <<item>>)

\* the plan has a test in every category
noEmptyCategory(text) ==
    \A i \in 1..Len(text.members) : text.members[i].value.items # <<>>

\* C20 as claimed: when the plan parses (and every category has a test),
\* grouping the flattened tests by category reproduces the source, also
\* when two category keys are equal after trimming.
C20_RegroupReproducesSource ==
    LET parsed == parsePlan(jsonDraft)
    IN  (parsed.error = None /\ noEmptyCategory(jsonDraft))
          => regroup(parsed.flattened) = parsed.source

\* C21: the ids of the tests of a loaded plan are pairwise distinct, also
\* for category names with hyphens and digits and for category keys that
\* are equal after trimming; a draft written for one test and then a draft
\* written for another are both kept under their ids.
C21_IdsDistinct ==
    step = "run"
      => \A i \in 1..Len(tests), j \in 1..Len(tests) :
           i # j
             => /\ tests[i].id # tests[j].id
                /\ LET S1 == updateComment(
                               updateComment(home, tests[i].id, <<"one">>),
                               tests[j].id, <<"two">>)
                   IN  /\ getKey(S1.commentDrafts, tests[i].id) = <<"one">>
                       /\ getKey(S1.commentDrafts, tests[j].id) = <<"two">>

\* a plan whose two category keys trim to the same name is loaded: both
\* tests have index 0 in category A and differ in the sequence number
C21_Witness ==
    /\ step = "run"
    /\ Len(tests) = 2
    /\ tests[1].id = <<"A", "-", "0", "-", "1">>
    /\ tests[2].id = <<"A", "-", "0", "-", "2">>

-----------------------------------------------------------------------------
(* Claims about the gestures and the keyboard *)

\* the distances of a release from the start of the drag
ReleaseDistances ==
    {0 - SWIPE_THRESHOLD - 1, 0 - SWIPE_THRESHOLD, 0 - 1, 0, 11,
     SWIPE_THRESHOLD, SWIPE_THRESHOLD + 1}

\* state S1 is state S0 with verdict newly requested for its current test
requestedIn(S0, S1, verdict) ==
    /\ S1.exitVerdict = [verdict |-> verdict]
    /\ S1.swipeTimeoutRef = [verdict |-> verdict, closure |-> render(S0)]
    /\ S1.cursor = S0.cursor
    /\ S1.results = S0.results

\* C26: the release of a locked drag at distance d calls recordVerdict with
\* pass when d > SWIPE_THRESHOLD and with fail when d < -SWIPE_THRESHOLD,
\* which requests the verdict when none is pending; at every other distance,
\* d = SWIPE_THRESHOLD and d = -SWIPE_THRESHOLD included, nothing is
\* requested, the drag offset returns to 0 and cursor and results stay.
C26_ReleaseResolvesDrag ==
    (cardRendered /\ pointerRef # None /\ pointerRef.locked)
      => \A d \in ReleaseDistances :
           LET S1 == handlePointerUp(home, pointerRef.pointerId,
                                     pointerRef.startX + d)
               released == [home EXCEPT !.pointerRef = None]
           IN  /\ d > SWIPE_THRESHOLD
                    => /\ S1 = recordVerdict(released, "pass")
                       /\ exitVerdict = None
                            => requestedIn(released, S1, "pass")
               /\ d < 0 - SWIPE_THRESHOLD
                    => /\ S1 = recordVerdict(released, "fail")
                       /\ exitVerdict = None
                            => requestedIn(released, S1, "fail")
               /\ (d <= SWIPE_THRESHOLD /\ d >= 0 - SWIPE_THRESHOLD)
                    => /\ S1 = [released EXCEPT !.dragOffset = 0,
                                                !.isDragging = FALSE]
                       /\ S1.swipeTimeoutRef = swipeTimeoutRef
                       /\ S1.exitVerdict = exitVerdict
                       /\ S1.cursor = cursor
                       /\ S1.results = results

\* a locked drag of pointer 1 stands exactly at the threshold, no verdict
\* pending
C26_Witness ==
    /\ cardRendered
    /\ pointerRef # None
    /\ pointerRef.pointerId = 1
    /\ pointerRef.locked
    /\ pressed[1] # None
    /\ pressed[1].phase = "locked"
    /\ isDragging
    /\ dragOffset = SWIPE_THRESHOLD
    /\ exitVerdict = None

\* C27: when a pointer goes down while the gesture of another pointer is
\* tracked, the tracked pointer id and start position stay those of the
\* first pointer.
C27_SecondPointerIgnored ==
    [][\A q \in GesturePointers :
         (/\ pressed[q] = None
          /\ pressed'[q] # None
          /\ pointerRef # None
          /\ pointerRef.pointerId # q
          /\ pressed[pointerRef.pointerId] # None)
           => /\ pointerRef' # None
              /\ pointerRef'.pointerId = pointerRef.pointerId
              /\ pointerRef'.startX = pointerRef.startX
              /\ pointerRef'.startY = pointerRef.startY
      ]_vars

\* C28: when the end of a gesture (release or cancel) requests a verdict,
\* the gesture began on the card outside the controls, its own movement
\* left the deadzone horizontally and it was not cancelled.
C28_OnlyLockedDragsRequest ==
    [][\A p \in GesturePointers :
         (/\ pressed[p] # None
          /\ pressed'[p] = None
          /\ swipeTimeoutRef = None
          /\ swipeTimeoutRef' # None)
           => /\ ~pressed[p].onControl
              /\ pressed[p].phase = "locked"
      ]_vars

\* the keys of the shortcuts, and other keys
ShortcutKeys ==
    {"P", "p", "F", "f", "ArrowRight", "ArrowLeft", "U", "u", "Z", "z", "x",
     "Enter"}

\* C29: a keydown with the focus in a text field, or in a step other than
\* run, changes nothing; in the run step with the focus elsewhere, P and
\* ArrowRight call recordVerdict("pass"), F and ArrowLeft call
\* recordVerdict("fail"), U and Ctrl/Cmd+Z call undoLast, and no other key
\* does anything.
C29_KeyboardShortcuts ==
    \A eventKey \in ShortcutKeys, modifier \in BOOLEAN :
      LET S1 == dispatchKeyDown(home, eventKey, FALSE, modifier)
      IN  /\ dispatchKeyDown(home, eventKey, TRUE, modifier) = home
          /\ step # "run" => S1 = home
          /\ step = "run"
               => /\ eventKey \in {"P", "p", "ArrowRight"}
                       => /\ S1 = recordVerdict(home, "pass")
                          /\ exitVerdict = None
                               => requestedIn(home, S1, "pass")
                  /\ eventKey \in {"F", "f", "ArrowLeft"}
                       => /\ S1 = recordVerdict(home, "fail")
                          /\ exitVerdict = None
                               => requestedIn(home, S1, "fail")
                  /\ (eventKey \in {"U", "u"}
                        \/ (modifier /\ eventKey \in {"Z", "z"}))
                       => S1 = undoLast(home)
                  /\ (eventKey \in {"x", "Enter"}
                        \/ (~modifier /\ eventKey \in {"Z", "z"}))
                       => S1 = home

\* a key has requested Fail for the second test: no pointer is down
C29_Witness ==
    /\ step = "run"
    /\ cursor = 1
    /\ exitVerdict = [verdict |-> "fail"]
    /\ swipeTimeoutRef # None
    /\ pointerRef = None
    /\ \A p \in GesturePointers : pressed[p] = None

\* C37: a locked drag is in progress on a test that is not the last; a
\* verdict is requested with a key or a button and committed; the release of
\* the drag beyond the threshold then requests no verdict for the next test.
C37_DragVerdictOnlyForItsTest ==
    (/\ cardRendered
     /\ exitVerdict = None
     /\ cursor + 1 < Len(tests)
     /\ pointerRef # None
     /\ pointerRef.locked
     /\ pressed[pointerRef.pointerId] # None
     /\ ~pressed[pointerRef.pointerId].onControl
     /\ pressed[pointerRef.pointerId].phase = "locked")
      => \A v \in Verdicts :
           LET committed == timerCallback(recordVerdict(home, v))
               released == handlePointerUp(committed, pointerRef.pointerId,
                             pointerRef.startX + SWIPE_THRESHOLD + 1)
           IN  /\ committed.cursor = cursor + 1
               /\ released.exitVerdict = None
               /\ released.swipeTimeoutRef = None

-----------------------------------------------------------------------------
\* Claims about the selected report

\* the selection of S is none when its history is empty, and otherwise the
\* id of one of its reports
selectionMatches(S) ==
    IF S.history = <<>> THEN S.activeReportId = None
    ELSE /\ S.activeReportId # None
         /\ \E i \in 1..Len(S.history) :
              S.history[i].id = S.activeReportId.id

-----------------------------------------------------------------------------
\* Claims about the stored history and the loaded one

\* the component opened again on the store of S: its first render and the
\* history it has once the load effect has run
reopened(S) ==
    loadHistory([S EXCEPT !.history = <<>>, !.activeReportId = None,
                          !.mounted = FALSE])

\* the store of S holds the text of its history, and a page opened on that
\* store has the same reports in the same order
persisted(S) ==
    /\ S.storage = stringify(S.history)
    /\ reopened(S).history = S.history

\* C31: after every change of the history (the load, a finished run, a
\* removed report, Clear All) the value under the storage key is the text of
\* the history in memory, and a page loaded again on it has the same list of
\* reports in the same order; the removals tried are those of the newest, the
\* second and the oldest report
C31_StoreFollowsHistory ==
    mounted =>
      /\ persisted(home)
      /\ \A i \in {1, 2, Len(history)} \cap (1..Len(history)) :
           persisted(saveHistory(deleteReport(home, history[i].id)))

\* the page was loaded again after a run finished on a loaded history: the
\* report of the run is in front of the loaded one, and the store holds both
C31_Witness ==
    /\ mounted
    /\ step = "start"
    /\ Len(history) = 2
    /\ history[1].id = MAX_HISTORY_ITEMS + 1
    /\ history[2].id = 1
    /\ storage = stringify(history)

-----------------------------------------------------------------------------
\* Claims about the install prompt

\* C32: once the user has chosen Don't Show Again, the install prompt is not
\* shown in any later visit, whatever the store holds under the history key
\* (a history, an empty one, nothing, or a text that cannot be parsed) when
\* that visit loads
C32_DismissalPersists ==
    (mounted /\ dismissStorage = [value |-> "1"]) => ~showInstallPrompt(home)

-----------------------------------------------------------------------------
\* Claims about the service worker

\* the responses the caches of cs hold for url
cachedCopies(cs, url) ==
    { matchIn(cs[i].entries, url) : i \in 1..Len(cs) } \ {None}

\* the /offline page of the precache, None when the precache lacks it
precachedOffline(cs) ==
    IF \E i \in 1..Len(cs) : cs[i].name = STATIC_CACHE
    THEN matchIn((CHOOSE c \in {cs[i] : i \in 1..Len(cs)} :
                    c.name = STATIC_CACHE).entries, OfflinePath)
    ELSE None

\* the entries of the runtime cache of cs
runtimeEntries(cs) ==
    UNION { cs[i].entries : i \in {j \in 1..Len(cs) :
                                     cs[j].name = RUNTIME_CACHE} }

\* C39: the activated worker answers a GET navigation of its own origin
\* network first.  When the network answers, the page gets that response and
\* a put of a copy into the runtime cache is started, which leaves the copy
\* there when it settles.  When the network fails, the page gets a cached
\* response for the request if a cache holds one, otherwise the precached
\* /offline page, and the answer fails only when there is neither.  A request
\* that is not a GET, or is for another origin, is not intercepted and changes
\* no cache.
C39_NetworkFirstNavigation ==
    worker = "activated" =>
      \A request \in AllRequests, net \in NetworkOutcomes :
        LET r == onFetch(caches, request, net)
            url == request.path
            copies == cachedCopies(caches, url)
            copy == [cache |-> RUNTIME_CACHE, url |-> url, response |-> net]
        IN  IF request.method = "GET" /\ request.origin = "self"
            THEN request.mode = "navigate" =>
                   /\ r.intercepted
                   /\ net # None =>
                        /\ r.response = net
                        /\ r.put = copy
                        /\ [url |-> url, response |-> net] \in
                             runtimeEntries(put(r.caches, copy.cache,
                                                copy.url, copy.response))
                   /\ net = None =>
                        /\ r.put = None
                        /\ r.caches = caches
                        /\ copies # {} => r.response \in copies
                        /\ (copies = {} /\ precachedOffline(caches) # None)
                             => r.response = precachedOffline(caches)
                        /\ r.response = None =>
                             /\ copies = {}
                             /\ precachedOffline(caches) = None
            ELSE /\ ~r.intercepted
                 /\ r.put = None
                 /\ r.caches = caches

\* a navigation to a page that no cache holds was made while the network was
\* down, and the page got the precached /offline page
C39_Witness ==
    /\ worker = "activated"
    /\ reply # None
    /\ reply.request = [method |-> "GET", origin |-> "self",
                        mode |-> "navigate", path |-> <<"report">>]
    /\ reply.intercepted
    /\ cachedCopies(caches, <<"report">>) = {}
    /\ reply.response # None
    /\ reply.response = precachedOffline(caches)

====
